---- MODULE Spec2Model ----
(***************************************************************************)
(* Authentication, session and audit engine of the appointment booking     *)
(* API: refresh-token rotation, login with failed-attempt tracking,        *)
(* password reset, and context-bound access-token verification.            *)
(* Time is counted in whole minutes.                                       *)
(***************************************************************************)
EXTENDS Integers, Sequences, FiniteSets, TLC

(* ------------------------------------------------------------------ *)
(* Bounds of the model                                                 *)
(* ------------------------------------------------------------------ *)
NumProcs == 2
MaxTokens == 3
MaxLog == 3
MaxLogLogin == 8
MaxLoginTime == 16
MaxLogLocked == 7
MaxLogLockout == 17
MaxLockoutTime == 16
MaxLogReset == 5
MaxResetTime == 61
MaxLogGuard == 3
MaxGuardTime == 16
MaxUsers == 1
MaxRefreshTime == 10080
MaxRefreshRequests == 3
MaxVerificationTokens == 2
MaxLogTrack == 12
MaxEarlierFailures == 4
MaxLogFlood == 14
MaxFloodTime == 61
MaxLogAudit == 4
MaxRegistered == 2
MaxAccounts == 2
MaxLogLogoutAll == 5
MaxLogAdmin == 4
MaxAdminTime == 129601
MaxLogCleanup == 5
MaxCleanupTime == 259200
MaxLogBreach == 4
MaxLogReject == 3
MaxLogExpiry == 3
MaxExpiryTime == 18
MaxLogRace == 8
MaxLogAbort == 4
MaxLogSoft == 10
MaxSoftTime == 26
MaxLogContext == 4
MaxContextTime == 15
MaxLogCase == 9
MaxLogLockRace == 4
MaxLogRevoke == 3
MaxRevokeTime == 1440
MaxLogResetRace == 6
MaxLogResetFail == 7
MaxResetFailTime == 61
MaxLogPwChange == 5
MaxPwChangeTime == 1
MaxLogSuccess == 8
MaxSuccessTime == 20
MaxChain == 6
MaxChainTime == 4320
MaxLogRegister == 4
MaxTrackTime == 16
MaxVerifyWindowTime == 16
MaxVerifyTime == 1456

(* ------------------------------------------------------------------ *)
(* Program constants (minutes, counts)                                 *)
(* ------------------------------------------------------------------ *)
ACCESS_TOKEN_MINUTES == 15
REFRESH_TOKEN_EXPIRES_MINUTES == 10080
RESET_TOKEN_MINUTES == 60
SHORT_WINDOW == 15
LONG_WINDOW == 1440
RESET_WINDOW == 60
maxAttempts == 5
IP_BLOCK_ATTEMPTS == 10
LOCK_ATTEMPTS == 10
maxEmailResets == 3
maxIpResets == 5
BREACH_THRESHOLD == 1
MINUTES_PER_DAY == 1440
RETENTION_DAYS == 90
AUTH_LIMIT_MAX == 5
AUTH_LIMIT_WINDOW == 15
REGISTRATION_LIMIT_MAX == 3
REGISTRATION_LIMIT_WINDOW == 60
RESET_LIMIT_MAX == 3
RESET_LIMIT_WINDOW == 60
REFRESH_LIMIT_MAX == 10
REFRESH_LIMIT_WINDOW == 15
MIN_PASSWORD_LENGTH == 8
VERIFICATION_LIMIT_MAX == 5
VERIFICATION_LIMIT_WINDOW == 15
VERIFICATION_TOKEN_MINUTES == 1440

VARIABLES
    users,          \* users collection: Seq of user documents, id = position
    refreshTokens,  \* refreshTokens collection: Seq of documents, token value = position
    parentOf,       \* history: parentOf[i] = token rotated to create token i (0: issued at login/registration)
    resetTokens,    \* passwordResetTokens collection
    auditLog,       \* auditLogs collection, in insertion order
    now,            \* wall clock, minutes
    rateHits,       \* express-rate-limit memory stores: limiter -> socket address -> window
    issued,         \* history: access tokens handed to clients
    pc,             \* position of each in-flight /refresh (or rotateRefreshToken) call
    call,           \* locals of each in-flight call
    resp            \* the response of the last request handled in one piece

vars == <<users, refreshTokens, parentOf, resetTokens, auditLog, now, rateHits,
          issued, pc, call, resp>>

Procs == 1..NumProcs

(* ------------------------------------------------------------------ *)
(* Requests: where they come from                                      *)
(* ------------------------------------------------------------------ *)
Socks == {"10.0.0.1", "10.0.0.2"}
OriginA == [sock |-> "10.0.0.1", fwd |-> "", ua |-> "Firefox"]
OriginB == [sock |-> "10.0.0.2", fwd |-> "", ua |-> "Firefox"]
OriginC == [sock |-> "10.0.0.1", fwd |-> "", ua |-> "curl"]
OriginP == [sock |-> "10.0.0.2", fwd |-> "10.0.0.1", ua |-> "Firefox"]
OriginN == [sock |-> "10.0.0.2", fwd |-> "", ua |-> ""]

\* getClientIP: first X-Forwarded-For element, else the socket address, else 'unknown'
getClientIP(o) ==
    IF o.fwd # "" THEN o.fwd
    ELSE IF o.sock # "" THEN o.sock
    ELSE "unknown"

\* getUserAgent: the header, else 'unknown'
getUserAgent(o) == IF o.ua # "" THEN o.ua ELSE "unknown"

(* ------------------------------------------------------------------ *)
(* Emails and passwords                                                *)
(* ------------------------------------------------------------------ *)
toLowerCase(e) ==
    CASE e = "A@x.io" -> "a@x.io"
      [] e = " A@x.io" -> " a@x.io"
      [] OTHER -> e

trim(e) ==
    CASE e = " a@x.io" -> "a@x.io"
      [] e = " A@x.io" -> "A@x.io"
      [] OTHER -> e

\* what the password is made of, as validatePasswordStrength's tests see it
PasswordShape(p) ==
    CASE p = "Str0ng!Pass9" -> [len |-> 12, upper |-> TRUE, lower |-> TRUE, digit |-> TRUE, symbol |-> TRUE]
      [] p = "N3w!Passw0rd" -> [len |-> 12, upper |-> TRUE, lower |-> TRUE, digit |-> TRUE, symbol |-> TRUE]
      [] p = "Wr0ng!Guess1" -> [len |-> 12, upper |-> TRUE, lower |-> TRUE, digit |-> TRUE, symbol |-> TRUE]
      [] p = "P@ssw0rd" -> [len |-> 8, upper |-> TRUE, lower |-> TRUE, digit |-> TRUE, symbol |-> TRUE]
      [] p = "Padd3d!Entry0" -> [len |-> 13, upper |-> TRUE, lower |-> TRUE, digit |-> TRUE, symbol |-> TRUE]
      [] p = "abc" -> [len |-> 3, upper |-> FALSE, lower |-> TRUE, digit |-> FALSE, symbol |-> FALSE]
      [] OTHER -> [len |-> 0, upper |-> FALSE, lower |-> FALSE, digit |-> FALSE, symbol |-> FALSE]

\* the breach service's answer: whether a line carries the password's hash
\* suffix, and the count on that line (a padding line carries 0)
BreachFound(p) == p \in {"P@ssw0rd", "Padd3d!Entry0"}
BreachCount(p) == IF p = "P@ssw0rd" THEN 3 ELSE 0

validatePasswordStrength(p) ==
    LET s == PasswordShape(p)
        errors == (IF s.len < MIN_PASSWORD_LENGTH THEN {"length"} ELSE {})
                  \cup (IF ~s.upper THEN {"uppercase"} ELSE {})
                  \cup (IF ~s.lower THEN {"lowercase"} ELSE {})
                  \cup (IF ~s.digit THEN {"number"} ELSE {})
                  \cup (IF ~s.symbol THEN {"special"} ELSE {})
    IN [valid |-> errors = {}, errors |-> errors]

\* checkPasswordBreach + validatePasswordNotBreached; svcUp: the service answered
\* (otherwise fetch threw or the response was not ok)
validatePasswordNotBreachedFailClosed(p, svcUp) ==
    LET result == IF svcUp
                  THEN [breached |-> BreachFound(p), count |-> BreachCount(p), error |-> FALSE]
                  ELSE [breached |-> FALSE, count |-> 0, error |-> TRUE]
    IN IF result.error THEN [valid |-> FALSE]
       ELSE IF result.breached /\ result.count >= BREACH_THRESHOLD THEN [valid |-> FALSE]
       ELSE [valid |-> TRUE]

validatePasswordNotBreached(p, svcUp) ==
    LET result == IF svcUp
                  THEN [breached |-> BreachFound(p), count |-> BreachCount(p), error |-> FALSE]
                  ELSE [breached |-> FALSE, count |-> 0, error |-> TRUE]
    IN IF result.error THEN [valid |-> TRUE]
       ELSE IF result.breached /\ result.count >= BREACH_THRESHOLD THEN [valid |-> FALSE]
       ELSE [valid |-> TRUE]

\* bcrypt: the hash is not the password; compare re-derives it
hashPassword(p) == <<"bcrypt", p>>
verifyPassword(p, hash) == hash = <<"bcrypt", p>>

(* ------------------------------------------------------------------ *)
(* Rate limiters (express-rate-limit, fixed window per socket address) *)
(* ------------------------------------------------------------------ *)
Limiters == {"auth", "registration", "passwordReset", "refresh", "verification"}

LimiterMax(l) ==
    CASE l = "auth" -> AUTH_LIMIT_MAX
      [] l = "registration" -> REGISTRATION_LIMIT_MAX
      [] l = "passwordReset" -> RESET_LIMIT_MAX
      [] l = "refresh" -> REFRESH_LIMIT_MAX
      [] l = "verification" -> VERIFICATION_LIMIT_MAX

LimiterWindow(l) ==
    CASE l = "auth" -> AUTH_LIMIT_WINDOW
      [] l = "registration" -> REGISTRATION_LIMIT_WINDOW
      [] l = "passwordReset" -> RESET_LIMIT_WINDOW
      [] l = "refresh" -> REFRESH_LIMIT_WINDOW
      [] l = "verification" -> VERIFICATION_LIMIT_WINDOW

\* the window of key after one more request; the count stops one above max,
\* from where every further request of the window is refused alike
HitAfter(l, key) ==
    LET h == rateHits[l][key]
    IN IF h.count = 0 \/ now >= h.resetAt
       THEN [count |-> 1, resetAt |-> now + LimiterWindow(l)]
       ELSE [count |-> IF h.count > LimiterMax(l) THEN h.count ELSE h.count + 1,
             resetAt |-> h.resetAt]

RateLimited(l, key) == HitAfter(l, key).count > LimiterMax(l)

RateHitsAfter(l, key) == [rateHits EXCEPT ![l][key] = HitAfter(l, key)]

(* ------------------------------------------------------------------ *)
(* Audit log                                                           *)
(* ------------------------------------------------------------------ *)
\* createAuditLog: userId 0 and email "" stand for an absent field
createAuditLog(log, eventType, severity, userId, email, ip, detail) ==
    Append(log, [eventType |-> eventType, severity |-> severity, userId |-> userId,
                 email |-> email, ipAddress |-> ip, detail |-> detail,
                 timestamp |-> now, resolved |-> FALSE])

\* markAsResolved: updateOne({_id}); logId is the entry's position, 0 matches none
markAsResolvedToggle(log, logId) ==
    IF logId \in DOMAIN log THEN [log EXCEPT ![logId].resolved = ~log[logId].resolved] ELSE log

markAsResolved(log, logId) ==
    IF logId \in DOMAIN log THEN [log EXCEPT ![logId].resolved = TRUE] ELSE log

\* cleanupOldLogs: deleteMany({timestamp < cutoff, severity not in high, critical})
cleanupOldLogsAnySeverity(log, daysToKeep) ==
    LET cutoffDate == now - daysToKeep * MINUTES_PER_DAY
        Kept(d) == ~(d.timestamp < cutoffDate)
    IN SelectSeq(log, Kept)

cleanupOldLogs(log, daysToKeep) ==
    LET cutoffDate == now - daysToKeep * MINUTES_PER_DAY
        Kept(d) == ~(d.timestamp < cutoffDate /\ d.severity \notin {"high", "critical"})
    IN SelectSeq(log, Kept)

logSecurityEvent(log, eventType, severity, userId, email, ip, detail) ==
    createAuditLog(log, eventType, severity, userId, email, ip, detail)

\* getFailedLoginAttempts without the time window
getFailedLoginAttemptsEver(log, email, sinceMinutes) ==
    LET Match(d) == /\ d.eventType = "LOGIN_FAILED"
                    /\ d.email = toLowerCase(email)
    IN Cardinality({i \in DOMAIN log : Match(log[i])})

getFailedLoginAttempts(log, email, sinceMinutes) ==
    LET Match(d) == /\ d.eventType = "LOGIN_FAILED"
                    /\ d.email = toLowerCase(email)
                    /\ d.timestamp >= now - sinceMinutes
    IN Cardinality({i \in DOMAIN log : Match(log[i])})

getFailedLoginAttemptsByIP(log, ip, sinceMinutes) ==
    LET Match(d) == /\ d.eventType = "LOGIN_FAILED"
                    /\ d.ipAddress = ip
                    /\ d.timestamp >= now - sinceMinutes
    IN Cardinality({i \in DOMAIN log : Match(log[i])})

getPasswordResetRequestsByEmail(log, email, sinceMinutes) ==
    LET Match(d) == /\ d.eventType = "PASSWORD_RESET_REQUESTED"
                    /\ d.email = toLowerCase(email)
                    /\ d.timestamp >= now - sinceMinutes
    IN Cardinality({i \in DOMAIN log : Match(log[i])})

getPasswordResetRequestsByIP(log, ip, sinceMinutes) ==
    LET Match(d) == /\ d.eventType = "PASSWORD_RESET_REQUESTED"
                    /\ d.ipAddress = ip
                    /\ d.timestamp >= now - sinceMinutes
    IN Cardinality({i \in DOMAIN log : Match(log[i])})

trackSuspiciousActivity(log, activity, o, userId, email) ==
    logSecurityEvent(log, "SUSPICIOUS_ACTIVITY", "high", 0, "", getClientIP(o), activity)

trackTokenValidationFailure(log, reason, o) ==
    logSecurityEvent(log, "TOKEN_VALIDATION_FAILED", "medium", 0, "", getClientIP(o), reason)

\* trackSuccessfulLogin that forgets the email's earlier failed logins
trackSuccessfulLoginResetting(log, userId, email, o) ==
    LET Kept(d) == ~(d.eventType = "LOGIN_FAILED" /\ d.email = toLowerCase(email))
    IN logSecurityEvent(SelectSeq(log, Kept), "LOGIN_SUCCESS", "low", userId, email,
                        getClientIP(o), "")

trackSuccessfulLogin(log, userId, email, o) ==
    logSecurityEvent(log, "LOGIN_SUCCESS", "low", userId, email, getClientIP(o), "")

trackRegistration(log, success, email, o, userId, reason) ==
    logSecurityEvent(log, IF success THEN "REGISTRATION_SUCCESS" ELSE "REGISTRATION_FAILED",
                     IF success THEN "low" ELSE "medium", userId, email, getClientIP(o), reason)

trackPasswordReset(log, success, userId, email, o, reason) ==
    logSecurityEvent(log, IF success THEN "PASSWORD_RESET_SUCCESS" ELSE "PASSWORD_RESET_FAILED",
                     IF success THEN "medium" ELSE "high", userId, email, getClientIP(o), reason)

\* trackFailedLogin: userId 0 is the absent optional argument
trackFailedLoginStrict(log, email, o, reason, userId) ==
    LET ipAddress == getClientIP(o)
        shortTermAttempts == getFailedLoginAttempts(log, email, SHORT_WINDOW)
        longTermAttempts == getFailedLoginAttempts(log, email, LONG_WINDOW)
        ipAttempts == getFailedLoginAttemptsByIP(log, ipAddress, SHORT_WINDOW)
        totalAttempts == shortTermAttempts + 1
        ipTotalAttempts == ipAttempts + 1
        dailyAttempts == longTermAttempts + 1
        severity == IF totalAttempts >= 5 \/ ipTotalAttempts >= 10 THEN "critical"
                    ELSE IF totalAttempts >= 3 \/ ipTotalAttempts >= 5 THEN "high"
                    ELSE IF totalAttempts >= 2 THEN "medium"
                    ELSE "low"
        log1 == logSecurityEvent(log, "LOGIN_FAILED", severity, 0, email, ipAddress, reason)
        blocked == totalAttempts > maxAttempts \/ ipTotalAttempts >= IP_BLOCK_ATTEMPTS
    IN IF userId # 0 /\ dailyAttempts >= LOCK_ATTEMPTS
       THEN [log |-> logSecurityEvent(log1, "ACCOUNT_LOCKED", "critical", userId, email,
                                      ipAddress, "Too many failed login attempts"),
             blocked |-> TRUE, accountLocked |-> TRUE, lockUser |-> userId, attemptsLeft |-> 0]
       ELSE IF blocked
       THEN [log |-> logSecurityEvent(log1, "LOGIN_BLOCKED", "critical", 0, email,
                                      ipAddress, "Too many failed attempts"),
             blocked |-> TRUE, accountLocked |-> FALSE, lockUser |-> 0, attemptsLeft |-> 0]
       ELSE [log |-> log1, blocked |-> FALSE, accountLocked |-> FALSE, lockUser |-> 0,
             attemptsLeft |-> maxAttempts - totalAttempts]

trackFailedLoginLateHigh(log, email, o, reason, userId) ==
    LET ipAddress == getClientIP(o)
        shortTermAttempts == getFailedLoginAttempts(log, email, SHORT_WINDOW)
        longTermAttempts == getFailedLoginAttempts(log, email, LONG_WINDOW)
        ipAttempts == getFailedLoginAttemptsByIP(log, ipAddress, SHORT_WINDOW)
        totalAttempts == shortTermAttempts + 1
        ipTotalAttempts == ipAttempts + 1
        dailyAttempts == longTermAttempts + 1
        severity == IF totalAttempts >= 5 \/ ipTotalAttempts >= 10 THEN "critical"
                    ELSE IF totalAttempts >= 4 \/ ipTotalAttempts >= 5 THEN "high"
                    ELSE IF totalAttempts >= 2 THEN "medium"
                    ELSE "low"
        log1 == logSecurityEvent(log, "LOGIN_FAILED", severity, 0, email, ipAddress, reason)
        blocked == totalAttempts >= maxAttempts \/ ipTotalAttempts >= IP_BLOCK_ATTEMPTS
    IN IF userId # 0 /\ dailyAttempts >= LOCK_ATTEMPTS
       THEN [log |-> logSecurityEvent(log1, "ACCOUNT_LOCKED", "critical", userId, email,
                                      ipAddress, "Too many failed login attempts"),
             blocked |-> TRUE, accountLocked |-> TRUE, lockUser |-> userId, attemptsLeft |-> 0]
       ELSE IF blocked
       THEN [log |-> logSecurityEvent(log1, "LOGIN_BLOCKED", "critical", 0, email,
                                      ipAddress, "Too many failed attempts"),
             blocked |-> TRUE, accountLocked |-> FALSE, lockUser |-> 0, attemptsLeft |-> 0]
       ELSE [log |-> log1, blocked |-> FALSE, accountLocked |-> FALSE, lockUser |-> 0,
             attemptsLeft |-> maxAttempts - totalAttempts]

trackFailedLogin(log, email, o, reason, userId) ==
    LET ipAddress == getClientIP(o)
        shortTermAttempts == getFailedLoginAttempts(log, email, SHORT_WINDOW)
        longTermAttempts == getFailedLoginAttempts(log, email, LONG_WINDOW)
        ipAttempts == getFailedLoginAttemptsByIP(log, ipAddress, SHORT_WINDOW)
        totalAttempts == shortTermAttempts + 1
        ipTotalAttempts == ipAttempts + 1
        dailyAttempts == longTermAttempts + 1
        severity == IF totalAttempts >= 5 \/ ipTotalAttempts >= 10 THEN "critical"
                    ELSE IF totalAttempts >= 3 \/ ipTotalAttempts >= 5 THEN "high"
                    ELSE IF totalAttempts >= 2 THEN "medium"
                    ELSE "low"
        log1 == logSecurityEvent(log, "LOGIN_FAILED", severity, 0, email, ipAddress, reason)
        blocked == totalAttempts >= maxAttempts \/ ipTotalAttempts >= IP_BLOCK_ATTEMPTS
    IN IF userId # 0 /\ dailyAttempts >= LOCK_ATTEMPTS
       THEN [log |-> logSecurityEvent(log1, "ACCOUNT_LOCKED", "critical", userId, email,
                                      ipAddress, "Too many failed login attempts"),
             blocked |-> TRUE, accountLocked |-> TRUE, lockUser |-> userId, attemptsLeft |-> 0]
       ELSE IF blocked
       THEN [log |-> logSecurityEvent(log1, "LOGIN_BLOCKED", "critical", 0, email,
                                      ipAddress, "Too many failed attempts"),
             blocked |-> TRUE, accountLocked |-> FALSE, lockUser |-> 0, attemptsLeft |-> 0]
       ELSE [log |-> log1, blocked |-> FALSE, accountLocked |-> FALSE, lockUser |-> 0,
             attemptsLeft |-> maxAttempts - totalAttempts]

trackPasswordResetRequestEager(log, email, o, userExists) ==
    LET ipAddress == getClientIP(o)
        totalEmailResets == getPasswordResetRequestsByEmail(log, email, RESET_WINDOW) + 1
        totalIpResets == getPasswordResetRequestsByIP(log, ipAddress, RESET_WINDOW) + 1
        severity == IF totalEmailResets >= 3 \/ totalIpResets >= 5 THEN "critical"
                    ELSE IF totalEmailResets >= 2 \/ totalIpResets >= 3 THEN "high"
                    ELSE "low"
        log1 == logSecurityEvent(log, "PASSWORD_RESET_REQUESTED", severity, 0, email, ipAddress, "")
        blocked == totalEmailResets >= maxEmailResets \/ totalIpResets > maxIpResets
    IN IF blocked
       THEN [log |-> logSecurityEvent(log1, "SUSPICIOUS_ACTIVITY", "critical", 0, email, ipAddress,
                                      "Password reset flooding detected"),
             blocked |-> TRUE,
             reason |-> IF totalEmailResets > maxEmailResets THEN "email" ELSE "location"]
       ELSE IF totalEmailResets >= 2 \/ totalIpResets >= 3
       THEN [log |-> logSecurityEvent(log1, "SUSPICIOUS_ACTIVITY", "high", 0, email, ipAddress,
                                      "Multiple password reset requests"),
             blocked |-> FALSE, reason |-> ""]
       ELSE [log |-> log1, blocked |-> FALSE, reason |-> ""]

trackPasswordResetRequest(log, email, o, userExists) ==
    LET ipAddress == getClientIP(o)
        totalEmailResets == getPasswordResetRequestsByEmail(log, email, RESET_WINDOW) + 1
        totalIpResets == getPasswordResetRequestsByIP(log, ipAddress, RESET_WINDOW) + 1
        severity == IF totalEmailResets >= 3 \/ totalIpResets >= 5 THEN "critical"
                    ELSE IF totalEmailResets >= 2 \/ totalIpResets >= 3 THEN "high"
                    ELSE "low"
        log1 == logSecurityEvent(log, "PASSWORD_RESET_REQUESTED", severity, 0, email, ipAddress, "")
        blocked == totalEmailResets > maxEmailResets \/ totalIpResets > maxIpResets
    IN IF blocked
       THEN [log |-> logSecurityEvent(log1, "SUSPICIOUS_ACTIVITY", "critical", 0, email, ipAddress,
                                      "Password reset flooding detected"),
             blocked |-> TRUE,
             reason |-> IF totalEmailResets > maxEmailResets THEN "email" ELSE "location"]
       ELSE IF totalEmailResets >= 2 \/ totalIpResets >= 3
       THEN [log |-> logSecurityEvent(log1, "SUSPICIOUS_ACTIVITY", "high", 0, email, ipAddress,
                                      "Multiple password reset requests"),
             blocked |-> FALSE, reason |-> ""]
       ELSE [log |-> log1, blocked |-> FALSE, reason |-> ""]

(* ------------------------------------------------------------------ *)
(* User repository                                                     *)
(* ------------------------------------------------------------------ *)
\* findUserByEmail: the id of the user, 0 when there is none
findUserByEmail(us, email) ==
    LET hits == {i \in DOMAIN us : us[i].email = trim(toLowerCase(email))}
    IN IF hits = {} THEN 0 ELSE CHOOSE i \in hits : \A j \in hits : i <= j

findUserById(us, id) == IF id \in DOMAIN us THEN id ELSE 0

createUser(us, email, passwordHash) ==
    Append(us, [email |-> trim(toLowerCase(email)), passwordHash |-> passwordHash,
                role |-> "customer", locked |-> FALSE, lockReason |-> "",
                emailVerified |-> FALSE,
                emailVerificationToken |-> <<Len(us) + 1, 1>>,
                emailVerificationExpiry |-> now + VERIFICATION_TOKEN_MINUTES])

\* a verification token is <<account, serial>>; <<>> is an unset token
findUserByVerificationToken(us, token) ==
    IF \E i \in DOMAIN us : us[i].emailVerificationToken = token /\ us[i].emailVerificationExpiry > now
    THEN CHOOSE i \in DOMAIN us : us[i].emailVerificationToken = token /\ us[i].emailVerificationExpiry > now
    ELSE 0

setEmailVerificationToken(us, userId, token, expiresAt) ==
    IF userId \in DOMAIN us
    THEN [us EXCEPT ![userId].emailVerificationToken = token,
                    ![userId].emailVerificationExpiry = expiresAt]
    ELSE us

clearEmailVerificationToken(us, userId) ==
    IF userId \in DOMAIN us
    THEN [us EXCEPT ![userId].emailVerified = TRUE,
                    ![userId].emailVerificationToken = <<>>,
                    ![userId].emailVerificationExpiry = 0]
    ELSE us

updatePassword(us, userId, newPasswordHash) ==
    IF userId \in DOMAIN us
    THEN [us EXCEPT ![userId].passwordHash = newPasswordHash]
    ELSE us

lockAccount(us, userId, reason) ==
    IF userId \in DOMAIN us
    THEN [us EXCEPT ![userId].locked = TRUE, ![userId].lockReason = reason]
    ELSE us

unlockAccount(us, userId) ==
    IF userId \in DOMAIN us
    THEN [us EXCEPT ![userId].locked = FALSE, ![userId].lockReason = ""]
    ELSE us

createPasswordResetToken(rs, userId) ==
    Append(rs, [userId |-> userId, token |-> Len(rs) + 1,
                expiresAt |-> now + RESET_TOKEN_MINUTES, used |-> FALSE])

findPasswordResetTokenAnyUse(rs, token) ==
    IF token \in DOMAIN rs THEN token ELSE 0

\* findPasswordResetToken: the position of the unused token, 0 when there is none
findPasswordResetToken(rs, token) ==
    IF token \in DOMAIN rs /\ ~rs[token].used THEN token ELSE 0

markTokenAsUsed(rs, tokenId) ==
    IF tokenId \in DOMAIN rs THEN [rs EXCEPT ![tokenId].used = TRUE] ELSE rs

(* ------------------------------------------------------------------ *)
(* Refresh token repository                                            *)
(* ------------------------------------------------------------------ *)
\* createRefreshTokenData + createRefreshToken: a fresh value, 7 days to live;
\* revokedAt -1 is an absent field
createRefreshToken(ts, userId, o) ==
    Append(ts, [userId |-> userId, token |-> Len(ts) + 1,
                expiresAt |-> now + REFRESH_TOKEN_EXPIRES_MINUTES, revoked |-> FALSE,
                revokedAt |-> -1,
                ipAddress |-> getClientIP(o), userAgent |-> getUserAgent(o)])

\* findValidRefreshToken: the position of the document, 0 when none matches
findValidRefreshTokenBroken(ts, token) ==
    IF token \in DOMAIN ts /\ ts[token].expiresAt > now THEN token ELSE 0

findValidRefreshToken(ts, token) ==
    IF token \in DOMAIN ts /\ ~ts[token].revoked /\ ts[token].expiresAt > now
    THEN token
    ELSE 0

revokeRefreshTokenNoop(ts, token) == ts

\* revokeRefreshToken: updateOne({token}), whatever the document's state
revokeRefreshToken(ts, token) ==
    IF token \in DOMAIN ts
    THEN [ts EXCEPT ![token].revoked = TRUE, ![token].revokedAt = now]
    ELSE ts

revokeAllUserRefreshTokensOfAnyone(ts, userId) ==
    [i \in DOMAIN ts |-> IF ~ts[i].revoked
                         THEN [ts[i] EXCEPT !.revoked = TRUE, !.revokedAt = now]
                         ELSE ts[i]]

revokeAllUserRefreshTokens(ts, userId) ==
    [i \in DOMAIN ts |-> IF ts[i].userId = userId /\ ~ts[i].revoked
                         THEN [ts[i] EXCEPT !.revoked = TRUE, !.revokedAt = now]
                         ELSE ts[i]]

\* revokeRefreshTokenByIdForUser without the revoked: false filter and
\* written as a flip of the flag
revokeRefreshTokenByIdForUserToggle(ts, tokenId, userId) ==
    IF tokenId \in DOMAIN ts /\ ts[tokenId].userId = userId
    THEN [ts EXCEPT ![tokenId].revoked = ~ts[tokenId].revoked, ![tokenId].revokedAt = now]
    ELSE ts

\* revokeRefreshTokenByIdForUser: updateOne({_id, userId, revoked: false});
\* the document id is the position
revokeRefreshTokenByIdForUser(ts, tokenId, userId) ==
    IF tokenId \in DOMAIN ts /\ ts[tokenId].userId = userId /\ ~ts[tokenId].revoked
    THEN [ts EXCEPT ![tokenId].revoked = TRUE, ![tokenId].revokedAt = now]
    ELSE ts

\* revokeAllUserRefreshTokensExcept: updateMany over the user's unrevoked,
\* unexpired tokens, but for those of the given IP and user-agent ("" is absent)
revokeAllUserRefreshTokensExcept(ts, userId, ipAddress, userAgent) ==
    [i \in DOMAIN ts |->
        IF /\ ts[i].userId = userId /\ ~ts[i].revoked /\ ts[i].expiresAt > now
           /\ ~(ipAddress # "" /\ userAgent # ""
                 /\ ts[i].ipAddress = ipAddress /\ ts[i].userAgent = userAgent)
        THEN [ts[i] EXCEPT !.revoked = TRUE, !.revokedAt = now]
        ELSE ts[i]]

(* ------------------------------------------------------------------ *)
(* Access tokens                                                       *)
(* ------------------------------------------------------------------ *)
\* generateAccessToken with a one-hour lifetime
generateAccessTokenHour(userId, email, role, ipAddress, userAgent) ==
    [userId |-> userId, email |-> email, role |-> role, ipAddress |-> ipAddress,
     userAgent |-> userAgent, iat |-> now, exp |-> now + 60, sig |-> "server"]

\* generateAccessToken: the signed claim set (iat and exp are set by jwt.sign);
\* "" is an absent context claim
generateAccessToken(userId, email, role, ipAddress, userAgent) ==
    [userId |-> userId, email |-> email, role |-> role, ipAddress |-> ipAddress,
     userAgent |-> userAgent, iat |-> now, exp |-> now + ACCESS_TOKEN_MINUTES, sig |-> "server"]

\* verifyAccessToken: signature and expiry; FALSE stands for null
verifyAccessToken(token) == token.sig = "server" /\ now < token.exp

verifyAccessTokenWithContextNoUA(token, currentIpAddress, currentUserAgent) ==
    IF ~verifyAccessToken(token)
    THEN [valid |-> FALSE, payload |-> FALSE, mismatch |-> FALSE,
          ipChanged |-> FALSE, userAgentChanged |-> FALSE,
          originalIp |-> "", currentIp |-> "", originalUserAgent |-> "", currentUserAgent |-> ""]
    ELSE [valid |-> token.ipAddress = "" \/ token.userAgent = "" \/ token.ipAddress = currentIpAddress,
          payload |-> TRUE,
          mismatch |-> token.ipAddress # "" /\ token.userAgent # "" /\ token.ipAddress # currentIpAddress,
          ipChanged |-> token.ipAddress # currentIpAddress, userAgentChanged |-> FALSE,
          originalIp |-> token.ipAddress, currentIp |-> currentIpAddress,
          originalUserAgent |-> token.userAgent, currentUserAgent |-> currentUserAgent]

\* verifyAccessTokenWithContext: payload FALSE is a null payload, mismatch FALSE an
\* absent mismatch object (its fields are then not meaningful)
verifyAccessTokenWithContext(token, currentIpAddress, currentUserAgent) ==
    LET none == [valid |-> FALSE, payload |-> FALSE, mismatch |-> FALSE,
                 ipChanged |-> FALSE, userAgentChanged |-> FALSE,
                 originalIp |-> "", currentIp |-> "",
                 originalUserAgent |-> "", currentUserAgent |-> ""]
        ipChanged == token.ipAddress # currentIpAddress
        userAgentChanged == token.userAgent # currentUserAgent
    IN IF ~verifyAccessToken(token) THEN none
       ELSE IF token.ipAddress = "" \/ token.userAgent = ""
       THEN [none EXCEPT !.valid = TRUE, !.payload = TRUE]
       ELSE IF ipChanged \/ userAgentChanged
       THEN [valid |-> FALSE, payload |-> TRUE, mismatch |-> TRUE,
             ipChanged |-> ipChanged, userAgentChanged |-> userAgentChanged,
             originalIp |-> token.ipAddress, currentIp |-> currentIpAddress,
             originalUserAgent |-> token.userAgent, currentUserAgent |-> currentUserAgent]
       ELSE [none EXCEPT !.valid = TRUE, !.payload = TRUE]

(* ------------------------------------------------------------------ *)
(* Initial state: empty collections, no request in flight              *)
(* ------------------------------------------------------------------ *)
NoToken == [userId |-> 0, email |-> "", role |-> "", ipAddress |-> "", userAgent |-> "",
            iat |-> 0, exp |-> 0, sig |-> "none"]

NoVerification == [valid |-> FALSE, payload |-> FALSE, mismatch |-> FALSE,
                   ipChanged |-> FALSE, userAgentChanged |-> FALSE,
                   originalIp |-> "", currentIp |-> "",
                   originalUserAgent |-> "", currentUserAgent |-> ""]

NoResp == [op |-> "none", status |-> 0, msg |-> "", email |-> "", password |-> "", user |-> 0,
           reset |-> 0, blocked |-> FALSE, attemptsLeft |-> 0,
           origin |-> OriginA, lockedBefore |-> FALSE, pwChecked |-> FALSE,
           minted |-> FALSE, token |-> NoToken, ver |-> NoVerification,
           events |-> {}, failsBefore |-> 0, at |-> 0, auditUp |-> TRUE,
           logId |-> 0, daysToKeep |-> 0, svcUp |-> TRUE, current |-> "",
           notBlocked |-> 0, returned |-> {}]

NoCall == [op |-> "none", token |-> 0, origin |-> OriginA, user |-> 0, status |-> 0,
           email |-> "", password |-> "",
           shortTermAttempts |-> 0, longTermAttempts |-> 0, ipAttempts |-> 0,
           result |-> 0, access |-> NoToken,
           deadAtCall |-> FALSE, rotatedAtCall |-> FALSE, revokedBeforeRotation |-> FALSE,
           before |-> <<>>]

Init ==
    /\ users = <<>>
    /\ refreshTokens = <<>>
    /\ parentOf = <<>>
    /\ resetTokens = <<>>
    /\ auditLog = <<>>
    /\ now = 0
    /\ rateHits = [l \in Limiters |-> [k \in Socks |-> [count |-> 0, resetAt |-> 0]]]
    /\ issued = {}
    /\ pc = [p \in Procs |-> "idle"]
    /\ call = [p \in Procs |-> NoCall]
    /\ resp = NoResp

\* the state a successful POST /auth/register of a@x.io from OriginA leaves behind
InitRegistered ==
    LET us == createUser(<<>>, "a@x.io", hashPassword("Str0ng!Pass9"))
    IN /\ now = 0
       /\ users = us
       /\ refreshTokens = createRefreshToken(<<>>, 1, OriginA)
       /\ parentOf = <<0>>
       /\ resetTokens = <<>>
       /\ auditLog = trackRegistration(<<>>, TRUE, us[1].email, OriginA, 1, "")
       /\ rateHits = [l \in Limiters |-> [k \in Socks |->
                         IF l = "registration" /\ k = OriginA.sock
                         THEN [count |-> 1, resetAt |-> REGISTRATION_LIMIT_WINDOW]
                         ELSE [count |-> 0, resetAt |-> 0]]]
       /\ issued = {generateAccessToken(1, us[1].email, us[1].role,
                                        getClientIP(OriginA), getUserAgent(OriginA))}
       /\ pc = [p \in Procs |-> "idle"]
       /\ call = [p \in Procs |-> NoCall]
       /\ resp = NoResp

\* the events a handler added to the audit log
Added(log) == {<<log[i].eventType, log[i].severity>> : i \in (Len(auditLog) + 1)..Len(log)}

EmailFormatOk(e) == e \in {"a@x.io", "A@x.io", "b@x.io"}

(* ------------------------------------------------------------------ *)
(* POST /auth/register                                                 *)
(* ------------------------------------------------------------------ *)
RegisterOutcomeInsertFirst(e, pw, o, svcUp) ==
    LET base == [status |-> 400, msg |-> "", users |-> users, tokens |-> refreshTokens,
                 log |-> auditLog, access |-> NoToken]
        strength == validatePasswordStrength(pw)
        breach == validatePasswordNotBreached(pw, svcUp)
        existing == findUserByEmail(users, e)
        us1 == createUser(users, e, hashPassword(pw))
        id == Len(us1)
    IN IF RateLimited("registration", o.sock)
       THEN [base EXCEPT !.status = 429, !.msg = "limiter"]
       ELSE IF ~EmailFormatOk(e)
       THEN [base EXCEPT !.msg = "Invalid email format"]
       ELSE IF ~strength.valid
       THEN [base EXCEPT !.msg = "weak password",
                         !.log = trackRegistration(auditLog, FALSE, e, o, 0, "weak password")]
       ELSE IF ~breach.valid
       THEN [base EXCEPT !.msg = "breached password",
                         !.log = trackRegistration(auditLog, FALSE, e, o, 0, "breached password")]
       ELSE IF existing # 0
       THEN [base EXCEPT !.msg = "An account with this email already exists", !.users = us1,
                         !.log = trackRegistration(auditLog, FALSE, e, o, 0, "Email already exists")]
       ELSE [status |-> 201, msg |-> "created", users |-> us1,
             tokens |-> createRefreshToken(refreshTokens, id, o),
             log |-> trackRegistration(auditLog, TRUE, us1[id].email, o, id, ""),
             access |-> generateAccessToken(id, us1[id].email, us1[id].role,
                                            getClientIP(o), getUserAgent(o))]

RegisterOutcome(e, pw, o, svcUp) ==
    LET base == [status |-> 400, msg |-> "", users |-> users, tokens |-> refreshTokens,
                 log |-> auditLog, access |-> NoToken]
        strength == validatePasswordStrength(pw)
        breach == validatePasswordNotBreached(pw, svcUp)
        existing == findUserByEmail(users, e)
        us1 == createUser(users, e, hashPassword(pw))
        id == Len(us1)
    IN IF RateLimited("registration", o.sock)
       THEN [base EXCEPT !.status = 429, !.msg = "limiter"]
       ELSE IF ~EmailFormatOk(e)
       THEN [base EXCEPT !.msg = "Invalid email format"]
       ELSE IF ~strength.valid
       THEN [base EXCEPT !.msg = "weak password",
                         !.log = trackRegistration(auditLog, FALSE, e, o, 0, "weak password")]
       ELSE IF ~breach.valid
       THEN [base EXCEPT !.msg = "breached password",
                         !.log = trackRegistration(auditLog, FALSE, e, o, 0, "breached password")]
       ELSE IF existing # 0
       THEN [base EXCEPT !.msg = "An account with this email already exists",
                         !.log = trackRegistration(auditLog, FALSE, e, o, 0, "Email already exists")]
       ELSE [status |-> 201, msg |-> "created", users |-> us1,
             tokens |-> createRefreshToken(refreshTokens, id, o),
             log |-> trackRegistration(auditLog, TRUE, us1[id].email, o, id, ""),
             access |-> generateAccessToken(id, us1[id].email, us1[id].role,
                                            getClientIP(o), getUserAgent(o))]

Register(e, pw, o, svcUp, maxUsers, cap) ==
    LET r == RegisterOutcome(e, pw, o, svcUp)
    IN /\ Len(auditLog) + 1 <= cap
       /\ r.status = 201 => (Len(users) < maxUsers /\ Len(refreshTokens) < MaxTokens)
       /\ rateHits' = RateHitsAfter("registration", o.sock)
       /\ users' = r.users
       /\ refreshTokens' = r.tokens
       /\ parentOf' = IF r.status = 201 THEN Append(parentOf, 0) ELSE parentOf
       /\ auditLog' = r.log
       /\ issued' = IF r.status = 201 THEN issued \cup {r.access} ELSE issued
       /\ resp' = [NoResp EXCEPT !.at = now, !.op = "register", !.status = r.status, !.msg = r.msg,
                                 !.email = e, !.origin = o, !.minted = (r.status = 201),
                                 !.password = pw, !.svcUp = svcUp,
                                 !.user = IF r.status = 201 THEN Len(r.users) ELSE 0,
                                 !.events = Added(r.log)]
       /\ UNCHANGED <<resetTokens, now, pc, call>>

(* ------------------------------------------------------------------ *)
(* POST /auth/login                                                    *)
(* ------------------------------------------------------------------ *)
LoginOutcomePasswordFirst(e, pw, o) ==
    LET base == [status |-> 400, msg |-> "Invalid email or password", users |-> users,
                 tokens |-> refreshTokens, log |-> auditLog, access |-> NoToken,
                 user |-> 0, pwChecked |-> FALSE, blocked |-> FALSE, attemptsLeft |-> 0]
        user == findUserByEmail(users, e)
        failed == trackFailedLogin(auditLog, e, o, "Invalid password", 0)
    IN IF RateLimited("auth", o.sock)
       THEN [base EXCEPT !.status = 429, !.msg = "limiter"]
       ELSE IF user = 0
       THEN [base EXCEPT !.log = trackFailedLogin(auditLog, e, o, "User not found", 0).log]
       ELSE IF ~verifyPassword(pw, users[user].passwordHash)
       THEN [base EXCEPT !.log = failed.log, !.user = user, !.pwChecked = TRUE,
                         !.status = IF failed.blocked THEN 429 ELSE 400]
       ELSE IF users[user].locked
       THEN [base EXCEPT !.status = 403, !.msg = "Account is locked", !.user = user,
                         !.pwChecked = TRUE,
                         !.log = trackSuspiciousActivity(auditLog, "Login attempt on locked account",
                                                         o, user, users[user].email)]
       ELSE [status |-> 200, msg |-> "ok", users |-> users,
             tokens |-> createRefreshToken(refreshTokens, user, o),
             log |-> trackSuccessfulLogin(auditLog, user, users[user].email, o),
             access |-> generateAccessToken(user, users[user].email, users[user].role,
                                            getClientIP(o), getUserAgent(o)),
             user |-> user, pwChecked |-> TRUE, blocked |-> FALSE, attemptsLeft |-> 0]

LoginOutcome(e, pw, o) ==
    LET base == [status |-> 400, msg |-> "Invalid email or password", users |-> users,
                 tokens |-> refreshTokens, log |-> auditLog, access |-> NoToken,
                 user |-> 0, pwChecked |-> FALSE, blocked |-> FALSE, attemptsLeft |-> 0]
        user == findUserByEmail(users, e)
        unknown == trackFailedLogin(auditLog, e, o, "User not found", 0)
        failed == trackFailedLogin(auditLog, e, o, "Invalid password", 0)
        Tracked(t, u, checked) ==
            [base EXCEPT !.log = t.log, !.user = u, !.pwChecked = checked,
                         !.users = IF t.lockUser # 0
                                   THEN lockAccount(users, t.lockUser, "10 failed login attempts")
                                   ELSE users,
                         !.blocked = t.blocked, !.attemptsLeft = t.attemptsLeft,
                         !.status = IF t.blocked THEN 429 ELSE 400,
                         !.msg = IF t.blocked THEN "Too many failed login attempts"
                                 ELSE "Invalid email or password"]
    IN IF RateLimited("auth", o.sock)
       THEN [base EXCEPT !.status = 429, !.msg = "limiter"]
       ELSE IF user = 0
       THEN Tracked(unknown, 0, FALSE)
       ELSE IF users[user].locked
       THEN [base EXCEPT !.status = 403, !.msg = "Account is locked", !.user = user,
                         !.log = trackSuspiciousActivity(auditLog, "Login attempt on locked account",
                                                         o, user, users[user].email)]
       ELSE IF ~verifyPassword(pw, users[user].passwordHash)
       THEN Tracked(failed, user, TRUE)
       ELSE [status |-> 200, msg |-> "ok", users |-> users,
             tokens |-> createRefreshToken(refreshTokens, user, o),
             log |-> trackSuccessfulLogin(auditLog, user, users[user].email, o),
             access |-> generateAccessToken(user, users[user].email, users[user].role,
                                            getClientIP(o), getUserAgent(o)),
             user |-> user, pwChecked |-> TRUE, blocked |-> FALSE, attemptsLeft |-> 0]

Login(e, pw, o, cap) ==
    LET r == LoginOutcome(e, pw, o)
        u == findUserByEmail(users, e)
    IN /\ Len(r.log) <= cap
       /\ r.status = 200 => Len(refreshTokens) < MaxTokens
       /\ rateHits' = RateHitsAfter("auth", o.sock)
       /\ users' = r.users
       /\ refreshTokens' = r.tokens
       /\ parentOf' = IF r.status = 200 THEN Append(parentOf, 0) ELSE parentOf
       /\ auditLog' = r.log
       /\ issued' = IF r.status = 200 THEN issued \cup {r.access} ELSE issued
       /\ resp' = [NoResp EXCEPT !.at = now, !.op = "login", !.status = r.status, !.msg = r.msg,
                                 !.email = e, !.password = pw, !.origin = o, !.user = u,
                                 !.lockedBefore = (u # 0 /\ users[u].locked),
                                 !.pwChecked = r.pwChecked, !.minted = (r.status = 200),
                                 !.blocked = r.blocked, !.attemptsLeft = r.attemptsLeft,
                                 !.events = Added(r.log),
                                 !.failsBefore = getFailedLoginAttempts(auditLog, e, SHORT_WINDOW)]
       /\ UNCHANGED <<resetTokens, now, pc, call>>

(* ------------------------------------------------------------------ *)
(* POST /auth/forgot-password and POST /auth/reset-password            *)
(* ------------------------------------------------------------------ *)
\* what the route answers and stores, given the users collection us;
\* mailOk: sendPasswordResetEmail did not throw
ForgotPasswordOutcome(us, e, o, mailOk) ==
    LET user == findUserByEmail(us, e)
        limited == RateLimited("passwordReset", o.sock)
        resetCheck == trackPasswordResetRequest(auditLog, e, o, user # 0)
        proceeds == ~limited /\ ~resetCheck.blocked /\ user # 0
        status == IF limited \/ resetCheck.blocked THEN 429
                  ELSE IF user # 0 /\ ~mailOk THEN 500
                  ELSE 200
    IN [status |-> status,
        msg |-> IF limited THEN "limiter"
                ELSE IF resetCheck.blocked THEN resetCheck.reason
                ELSE IF status = 500 THEN "Failed to send password reset email"
                ELSE "If an account exists",
        log |-> IF limited THEN auditLog ELSE resetCheck.log,
        resets |-> IF proceeds THEN createPasswordResetToken(resetTokens, user) ELSE resetTokens,
        mailSent |-> proceeds /\ mailOk,
        user |-> user]

ForgotPassword(e, o, mailOk, cap) ==
    LET r == ForgotPasswordOutcome(users, e, o, mailOk)
    IN /\ Len(auditLog) + 2 <= cap
       /\ Len(resetTokens) < MaxTokens
       /\ rateHits' = RateHitsAfter("passwordReset", o.sock)
       /\ auditLog' = r.log
       /\ resetTokens' = r.resets
       /\ resp' = [NoResp EXCEPT !.at = now, !.op = "forgot", !.status = r.status, !.email = e,
                                 !.origin = o, !.user = r.user, !.msg = r.msg,
                                 !.events = Added(r.log)]
       /\ UNCHANGED <<users, refreshTokens, parentOf, now, issued, pc, call>>

\* the route with the token looked up and marked used ahead of the validations
ResetPasswordOutcomeMarkFirst(token, pw, o, svcUp) ==
    LET resetToken == findPasswordResetToken(resetTokens, token)
        marked == markTokenAsUsed(resetTokens, resetToken)
        base == [status |-> 400, msg |-> "", users |-> users, resets |-> marked,
                 log |-> auditLog, user |-> 0]
        userId == resetTokens[resetToken].userId
        user == findUserById(users, userId)
    IN IF ~validatePasswordStrength(pw).valid
       THEN [base EXCEPT !.msg = "weak password"]
       ELSE IF ~validatePasswordNotBreached(pw, svcUp).valid
       THEN [base EXCEPT !.msg = "breached password"]
       ELSE IF resetToken = 0
       THEN [base EXCEPT !.msg = "Invalid or expired reset token",
                         !.log = trackPasswordReset(auditLog, FALSE, 0, "", o, "Invalid or expired token")]
       ELSE IF now > resetTokens[resetToken].expiresAt
       THEN [base EXCEPT !.msg = "Reset token has expired", !.user = userId,
                         !.log = trackPasswordReset(auditLog, FALSE, userId, "", o, "Token expired")]
       ELSE [status |-> 200, msg |-> "Password has been reset successfully",
             users |-> updatePassword(users, userId, hashPassword(pw)),
             resets |-> marked,
             log |-> trackPasswordReset(auditLog, TRUE, userId,
                                        IF user # 0 THEN users[user].email ELSE "", o, ""),
             user |-> userId]

ResetPasswordOutcome(token, pw, o, svcUp) ==
    LET base == [status |-> 400, msg |-> "", users |-> users, resets |-> resetTokens,
                 log |-> auditLog, user |-> 0]
        resetToken == findPasswordResetToken(resetTokens, token)
        userId == resetTokens[resetToken].userId
        user == findUserById(users, userId)
    IN IF ~validatePasswordStrength(pw).valid
       THEN [base EXCEPT !.msg = "weak password"]
       ELSE IF ~validatePasswordNotBreached(pw, svcUp).valid
       THEN [base EXCEPT !.msg = "breached password"]
       ELSE IF resetToken = 0
       THEN [base EXCEPT !.msg = "Invalid or expired reset token",
                         !.log = trackPasswordReset(auditLog, FALSE, 0, "", o, "Invalid or expired token")]
       ELSE IF now > resetTokens[resetToken].expiresAt
       THEN [base EXCEPT !.msg = "Reset token has expired", !.user = userId,
                         !.log = trackPasswordReset(auditLog, FALSE, userId, "", o, "Token expired")]
       ELSE [status |-> 200, msg |-> "Password has been reset successfully",
             users |-> updatePassword(users, userId, hashPassword(pw)),
             resets |-> markTokenAsUsed(resetTokens, resetToken),
             log |-> trackPasswordReset(auditLog, TRUE, userId,
                                        IF user # 0 THEN users[user].email ELSE "", o, ""),
             user |-> userId]

ResetPassword(token, pw, o, svcUp, cap) ==
    LET r == ResetPasswordOutcome(token, pw, o, svcUp)
    IN /\ Len(auditLog) + 1 <= cap
       /\ users' = r.users
       /\ resetTokens' = r.resets
       /\ auditLog' = r.log
       /\ resp' = [NoResp EXCEPT !.at = now, !.op = "reset", !.status = r.status, !.msg = r.msg,
                                 !.origin = o, !.user = r.user, !.reset = token, !.password = pw,
                                 !.svcUp = svcUp,
                                 !.lockedBefore = (r.user # 0 /\ users[r.user].locked),
                                 !.events = Added(r.log)]
       /\ UNCHANGED <<refreshTokens, parentOf, now, rateHits, issued, pc, call>>

(* ------------------------------------------------------------------ *)
(* POST /auth/verify-email and POST /auth/resend-verification          *)
(* ------------------------------------------------------------------ *)
VerifyEmail(token, o) ==
    LET limited == RateLimited("verification", o.sock)
        user == findUserByVerificationToken(users, token)
    IN /\ rateHits' = RateHitsAfter("verification", o.sock)
       /\ users' = IF ~limited /\ user # 0 THEN clearEmailVerificationToken(users, user) ELSE users
       /\ resp' = [NoResp EXCEPT !.at = now, !.op = "verify", !.origin = o, !.user = user,
                                 !.status = IF limited THEN 429 ELSE IF user = 0 THEN 400 ELSE 200,
                                 !.msg = IF limited THEN "limiter"
                                         ELSE IF user = 0 THEN "Invalid or expired verification token"
                                         ELSE "Email verified successfully"]
       /\ UNCHANGED <<refreshTokens, parentOf, resetTokens, auditLog, now, issued, pc, call>>

\* what the route answers and stores, given the users collection us;
\* mailOk: sendVerificationEmail did not throw
ResendVerificationOutcome(us, e, o, mailOk) ==
    LET user == findUserByEmail(us, e)
        base == [status |-> 200, users |-> us, user |-> user,
                 msg |-> "If an account exists with this email, a verification link has been sent"]
        serial == IF us[user].emailVerificationToken = <<>> THEN 1
                  ELSE us[user].emailVerificationToken[2] + 1
        stored == setEmailVerificationToken(us, user, <<user, serial>>,
                                            now + VERIFICATION_TOKEN_MINUTES)
    IN IF RateLimited("verification", o.sock)
       THEN [base EXCEPT !.status = 429, !.msg = "limiter"]
       ELSE IF user = 0 THEN base
       ELSE IF us[user].emailVerified
       THEN [base EXCEPT !.status = 400, !.msg = "Email is already verified"]
       ELSE IF ~mailOk
       THEN [base EXCEPT !.status = 500, !.msg = "Failed to send verification email",
                         !.users = stored]
       ELSE [base EXCEPT !.msg = "Verification email has been sent", !.users = stored]

ResendVerification(e, o, mailOk, maxSerial) ==
    LET r == ResendVerificationOutcome(users, e, o, mailOk)
    IN /\ \A i \in DOMAIN r.users :
             r.users[i].emailVerificationToken # <<>> => r.users[i].emailVerificationToken[2] <= maxSerial
       /\ rateHits' = RateHitsAfter("verification", o.sock)
       /\ users' = r.users
       /\ resp' = [NoResp EXCEPT !.at = now, !.op = "resend", !.status = r.status, !.msg = r.msg,
                                 !.email = e, !.origin = o, !.user = r.user]
       /\ UNCHANGED <<refreshTokens, parentOf, resetTokens, auditLog, now, issued, pc, call>>

(* ------------------------------------------------------------------ *)
(* lockAccount, called on an account from outside the request handlers *)
(* ------------------------------------------------------------------ *)
LockAccount(userId) ==
    /\ userId \in DOMAIN users
    /\ ~users[userId].locked
    /\ users' = lockAccount(users, userId, "security")
    /\ UNCHANGED <<refreshTokens, parentOf, resetTokens, auditLog, now, rateHits,
                   issued, pc, call, resp>>

(* ------------------------------------------------------------------ *)
(* POST /auth/logout                                                   *)
(* ------------------------------------------------------------------ *)
Logout(token) ==
    /\ refreshTokens' = revokeRefreshToken(refreshTokens, token)
    /\ resp' = [NoResp EXCEPT !.at = now, !.op = "logout", !.status = 200]
    /\ UNCHANGED <<users, parentOf, resetTokens, auditLog, now, rateHits, issued, pc, call>>

(* ------------------------------------------------------------------ *)
(* Time                                                                *)
(* ------------------------------------------------------------------ *)
Advance(d, maxTime) ==
    /\ now + d <= maxTime
    /\ now' = now + d
    /\ UNCHANGED <<users, refreshTokens, parentOf, resetTokens, auditLog, rateHits,
                   issued, pc, call, resp>>

(* ------------------------------------------------------------------ *)
(* Bearer-protected operations                                         *)
(* ------------------------------------------------------------------ *)
\* what the route answers for a presented token: status, message, audit log after
GuardOutcome(op, token, o) ==
    LET ver == verifyAccessTokenWithContext(token, getClientIP(o), getUserAgent(o))
        base == [status |-> 401, msg |-> "Invalid or expired token", log |-> auditLog,
                 tokens |-> refreshTokens, ver |-> ver]
        hijack == [base EXCEPT !.msg = "Session hijacking detected. Please log in again.",
                               !.log = trackSuspiciousActivity(auditLog, "Session hijacking attempt",
                                                               o, token.userId, token.email)]
        user == findUserById(users, token.userId)
    IN CASE op = "validate" ->
              IF ~ver.valid \/ ~ver.payload
              THEN IF ver.mismatch THEN hijack
                   ELSE [base EXCEPT !.log = trackTokenValidationFailure(auditLog, "Invalid or expired JWT", o)]
              ELSE IF user = 0
              THEN [base EXCEPT !.status = 404, !.msg = "User not found",
                                !.log = trackTokenValidationFailure(auditLog, "User not found for token", o)]
              ELSE [base EXCEPT !.status = 200, !.msg = "ok"]
         [] op \in {"me", "profile"} ->
              IF ~ver.valid \/ ~ver.payload
              THEN IF ver.mismatch THEN hijack ELSE base
              ELSE IF user = 0
              THEN [base EXCEPT !.status = 404, !.msg = "User not found"]
              ELSE [base EXCEPT !.status = 200, !.msg = "ok"]
         [] op = "admin" ->
              IF ~ver.valid \/ ~ver.payload
              THEN IF ver.mismatch THEN hijack ELSE [base EXCEPT !.msg = "Invalid token"]
              ELSE IF token.role # "admin"
              THEN [base EXCEPT !.status = 403, !.msg = "Admin access required"]
              ELSE [base EXCEPT !.status = 200, !.msg = "ok"]
         [] op = "logoutAll" ->
              IF ~ver.valid \/ ~ver.payload
              THEN base
              ELSE [base EXCEPT !.status = 200, !.msg = "ok",
                                !.tokens = revokeAllUserRefreshTokens(refreshTokens, token.userId)]

ProtectedOps == {"validate", "me", "profile", "admin", "logoutAll"}

Protected(op, token, o, cap) ==
    LET r == GuardOutcome(op, token, o)
    IN /\ Len(auditLog) + 1 <= cap
       /\ auditLog' = r.log
       /\ refreshTokens' = r.tokens
       /\ resp' = [NoResp EXCEPT !.at = now, !.op = op, !.status = r.status, !.msg = r.msg,
                                 !.origin = o, !.token = token, !.ver = r.ver,
                                 !.events = Added(r.log)]
       /\ UNCHANGED <<users, parentOf, resetTokens, now, rateHits, issued, pc, call>>

\* a token a client holds, or the same claims signed by someone else
Forge(token) == [token EXCEPT !.sig = "attacker"]
Presentable == issued \cup {Forge(t) : t \in issued}

\* extractTokenFromHeader: the header split at spaces; <<>> stands for null,
\* <<t>> for the token t
extractTokenFromHeader(authHeader) ==
    IF authHeader = <<>> THEN <<>>
    ELSE IF Len(authHeader) # 2 \/ authHeader[1] # "Bearer" THEN <<>>
    ELSE <<authHeader[2]>>

\* Authorization headers that carry no bearer token, and one that does
Headers == {<<>>, <<"Bearer">>, <<"Basic", "dXNlcjpwdw">>, <<"Bearer", "x", "y">>, <<"Bearer", "x">>}

\* what the route answers when extractTokenFromHeader gives null
NoBearerOutcome(op, o) ==
    LET base == [status |-> 401, msg |-> "Authentication required", log |-> auditLog]
    IN CASE op = "validate" ->
              [base EXCEPT !.status = 400, !.msg = "Authorization token is required",
                           !.log = trackTokenValidationFailure(auditLog, "Missing authorization token", o)]
         [] op \in {"me", "profile", "logoutAll"} -> base
         [] op = "admin" -> [base EXCEPT !.msg = "Authorization required"]

Unauthenticated(op, authHeader, o, cap) ==
    LET r == NoBearerOutcome(op, o)
    IN /\ extractTokenFromHeader(authHeader) = <<>>
       /\ Len(auditLog) + 1 <= cap
       /\ auditLog' = r.log
       /\ resp' = [NoResp EXCEPT !.at = now, !.op = op, !.status = r.status, !.msg = r.msg,
                                 !.origin = o, !.events = Added(r.log)]
       /\ UNCHANGED <<users, refreshTokens, parentOf, resetTokens, now, rateHits, issued, pc, call>>

(* ------------------------------------------------------------------ *)
(* POST /auth/refresh, one storage step at a time, and                 *)
(* rotateRefreshToken called on its own                                *)
(* ------------------------------------------------------------------ *)
Valid(ts, token) == findValidRefreshToken(ts, token) # 0
Revoked(ts, token) == token \in DOMAIN ts /\ ts[token].revoked
Rotated(token) == \E i \in DOMAIN parentOf : parentOf[i] = token

\* limiter, then the handler's findValidRefreshToken
RefreshStart(p, token, o, cap) ==
    LET limited == RateLimited("refresh", o.sock)
        stored == findValidRefreshToken(refreshTokens, token)
        c == [NoCall EXCEPT !.op = "refresh", !.token = token, !.origin = o,
                            !.deadAtCall = (stored = 0), !.rotatedAtCall = Rotated(token),
                            !.before = IF stored = 0 \/ Rotated(token) THEN refreshTokens ELSE <<>>]
    IN /\ pc[p] = "idle"
       /\ Len(auditLog) + 1 <= cap
       /\ HitAfter("refresh", o.sock).count <= MaxRefreshRequests
       /\ rateHits' = RateHitsAfter("refresh", o.sock)
       /\ IF limited
          THEN /\ pc' = [pc EXCEPT ![p] = "done"]
               /\ call' = [call EXCEPT ![p] = [c EXCEPT !.status = 429]]
               /\ UNCHANGED auditLog
          ELSE IF stored = 0
          THEN /\ pc' = [pc EXCEPT ![p] = "done"]
               /\ call' = [call EXCEPT ![p] = [c EXCEPT !.status = 401]]
               /\ auditLog' = trackSuspiciousActivity(auditLog, "Invalid refresh token used", o, 0, "")
          ELSE /\ pc' = [pc EXCEPT ![p] = "user"]
               /\ call' = [call EXCEPT ![p] = [c EXCEPT !.user = refreshTokens[stored].userId]]
               /\ UNCHANGED auditLog
       /\ UNCHANGED <<users, refreshTokens, parentOf, resetTokens, now, issued, resp>>

\* findUserById and the lock check
RefreshUser(p) ==
    LET user == findUserById(users, call[p].user)
    IN /\ pc[p] = "user"
       /\ IF user = 0
          THEN /\ pc' = [pc EXCEPT ![p] = "done"]
               /\ call' = [call EXCEPT ![p].status = 404]
          ELSE IF users[user].locked
          THEN /\ pc' = [pc EXCEPT ![p] = "done"]
               /\ call' = [call EXCEPT ![p].status = 403]
          ELSE /\ pc' = [pc EXCEPT ![p] = "rot_find"]
               /\ call' = [call EXCEPT ![p].access =
                               generateAccessToken(user, users[user].email, users[user].role,
                                                   getClientIP(call[p].origin),
                                                   getUserAgent(call[p].origin))]
       /\ UNCHANGED <<users, refreshTokens, parentOf, resetTokens, auditLog, now,
                      rateHits, issued, resp>>

\* rotateRefreshToken(oldToken, newTokenData) called directly
RotateCall(p, token, userId, o) ==
    /\ pc[p] = "idle"
    /\ userId \in DOMAIN users
    /\ pc' = [pc EXCEPT ![p] = "rot_find"]
    /\ call' = [call EXCEPT ![p] = [NoCall EXCEPT !.op = "rotate", !.token = token,
                                                  !.origin = o, !.user = userId,
                                                  !.deadAtCall = ~Valid(refreshTokens, token),
                                                  !.rotatedAtCall = Rotated(token),
                                                  !.before = IF ~Valid(refreshTokens, token) \/ Rotated(token)
                                                              THEN refreshTokens ELSE <<>>]]
    /\ UNCHANGED <<users, refreshTokens, parentOf, resetTokens, auditLog, now,
                   rateHits, issued, resp>>

\* rotateRefreshToken: findValidRefreshToken(oldToken)
RotateFind(p) ==
    /\ pc[p] = "rot_find"
    /\ IF findValidRefreshToken(refreshTokens, call[p].token) = 0
       THEN /\ pc' = [pc EXCEPT ![p] = "done"]
            /\ call' = [call EXCEPT ![p].result = 0,
                                    ![p].status = IF call[p].op = "refresh" THEN 500 ELSE 0,
                                    ![p].revokedBeforeRotation = Revoked(refreshTokens, call[p].token)]
       ELSE /\ pc' = [pc EXCEPT ![p] = "rot_revoke"]
            /\ UNCHANGED call
    /\ UNCHANGED <<users, refreshTokens, parentOf, resetTokens, auditLog, now,
                   rateHits, issued, resp>>

\* rotateRefreshToken: revokeRefreshToken(oldToken)
RotateRevoke(p) ==
    /\ pc[p] = "rot_revoke"
    /\ refreshTokens' = revokeRefreshToken(refreshTokens, call[p].token)
    /\ call' = [call EXCEPT ![p].revokedBeforeRotation = Revoked(refreshTokens, call[p].token)]
    /\ pc' = [pc EXCEPT ![p] = "rot_create"]
    /\ UNCHANGED <<users, parentOf, resetTokens, auditLog, now, rateHits, issued, resp>>

\* rotateRefreshToken: createRefreshToken(newTokenData), and the 200 answer
RotateCreate(p) ==
    LET user == call[p].user
    IN /\ pc[p] = "rot_create"
       /\ Len(refreshTokens) < MaxTokens
       /\ refreshTokens' = createRefreshToken(refreshTokens, user, call[p].origin)
       /\ parentOf' = Append(parentOf, call[p].token)
       /\ call' = [call EXCEPT ![p].result = Len(refreshTokens) + 1,
                               ![p].status = IF call[p].op = "refresh" THEN 200 ELSE 0]
       /\ issued' = IF call[p].op = "refresh" THEN issued \cup {call[p].access} ELSE issued
       /\ pc' = [pc EXCEPT ![p] = "done"]
       /\ UNCHANGED <<users, resetTokens, auditLog, now, rateHits, resp>>

\* rotateRefreshToken: createRefreshToken(newTokenData), up to maxTokens documents
RotateCreateUpTo(p, maxTokens) ==
    LET user == call[p].user
    IN /\ pc[p] = "rot_create"
       /\ Len(refreshTokens) < maxTokens
       /\ refreshTokens' = createRefreshToken(refreshTokens, user, call[p].origin)
       /\ parentOf' = Append(parentOf, call[p].token)
       /\ call' = [call EXCEPT ![p].result = Len(refreshTokens) + 1,
                               ![p].status = IF call[p].op = "refresh" THEN 200 ELSE 0]
       /\ issued' = IF call[p].op = "refresh" THEN issued \cup {call[p].access} ELSE issued
       /\ pc' = [pc EXCEPT ![p] = "done"]
       /\ UNCHANGED <<users, resetTokens, auditLog, now, rateHits, resp>>


\* the answer is delivered; the worker is free again
Finish(p) ==
    /\ pc[p] = "done"
    /\ pc' = [pc EXCEPT ![p] = "idle"]
    /\ call' = [call EXCEPT ![p] = NoCall]
    /\ UNCHANGED <<users, refreshTokens, parentOf, resetTokens, auditLog, now,
                   rateHits, issued, resp>>

(* ------------------------------------------------------------------ *)
(* Spec: concurrent refresh requests against one account               *)
(* ------------------------------------------------------------------ *)
NoRequestInFlight == \A p \in Procs : pc[p] = "idle"

RefreshStep(p) ==
    \/ \E t \in 0..Len(refreshTokens) : RefreshStart(p, t, OriginA, MaxLog)
    \/ RefreshUser(p)
    \/ RotateFind(p)
    \/ RotateRevoke(p)
    \/ RotateCreate(p)
    \/ Finish(p)

RefreshEnv ==
    \/ Login("a@x.io", "Str0ng!Pass9", OriginA, MaxLog)
    \/ \E t \in DOMAIN refreshTokens : Logout(t)
    \/ Advance(REFRESH_TOKEN_EXPIRES_MINUTES, MaxRefreshTime)

Next ==
    \/ \E p \in Procs : RefreshStep(p)
    \/ RefreshEnv

Spec == InitRegistered /\ [][Next]_vars

(* ------------------------------------------------------------------ *)
(* SpecSeq: requests one at a time, and rotateRefreshToken on its own  *)
(* ------------------------------------------------------------------ *)
NextSeq ==
    \/ RefreshStep(1)
    \/ \E t \in 0..Len(refreshTokens) : RotateCall(1, t, 1, OriginA)
    \/ (NoRequestInFlight /\ RefreshEnv)
    \/ (NoRequestInFlight /\ \E u \in DOMAIN users : LockAccount(u))

SpecSeq == InitRegistered /\ [][NextSeq]_vars

(* ------------------------------------------------------------------ *)
(* Rotation chains                                                     *)
(* ------------------------------------------------------------------ *)
RECURSIVE Root(_)
Root(i) == IF parentOf[i] \in DOMAIN parentOf /\ parentOf[i] < i THEN Root(parentOf[i]) ELSE i

Chain(r) == {i \in DOMAIN refreshTokens : Root(i) = r}
Successors(t) == {i \in DOMAIN parentOf : parentOf[i] = t}

\* C1: of the concurrent rotateRefreshToken calls on one valid token at most one
\* returns a record (the others return null), and the token gets at most one successor.
C1_OneRotationWins ==
    /\ \A t \in DOMAIN refreshTokens : Cardinality(Successors(t)) <= 1
    /\ \A p, q \in Procs :
          (p # q /\ pc[p] = "done" /\ pc[q] = "done"
             /\ call[p].token = call[q].token /\ call[p].result # 0)
          => call[q].result = 0

\* C2: in every state each rotation chain holds at most one refresh token that is
\* neither revoked nor expired.
C2_OneValidTokenPerChain ==
    \A r \in DOMAIN refreshTokens :
        Cardinality({i \in Chain(r) : Valid(refreshTokens, i)}) <= 1

\* C3: with requests one at a time, rotateRefreshToken on a token that is unknown,
\* revoked or expired (in particular one already rotated) returns null, creates no
\* record and changes no record.
C3_DeadTokenNotRotated ==
    \A p \in Procs :
        (pc[p] = "done" /\ (call[p].deadAtCall \/ call[p].rotatedAtCall))
        => (call[p].result = 0 /\ refreshTokens = call[p].before)

C3_Witness ==
    \E p \in Procs :
        /\ pc[p] = "done"
        /\ call[p].op = "rotate"
        /\ call[p].rotatedAtCall
        /\ call[p].result = 0
        /\ refreshTokens = call[p].before
        /\ \E i \in DOMAIN refreshTokens : Valid(refreshTokens, i)

\* C8: a /refresh that presents a dead token (also one revoked or rotated by a
\* concurrent request before this request's own rotation step) is answered 401 and
\* gets no new refresh token.
C8_DeadRefreshIs401 ==
    \A p \in Procs :
        (pc[p] = "done" /\ call[p].op = "refresh"
           /\ (call[p].deadAtCall \/ call[p].revokedBeforeRotation))
        => (call[p].status \in {401, 429} /\ call[p].result = 0)


(* ------------------------------------------------------------------ *)
(* SpecLogin: logins for one account from two addresses                *)
(* ------------------------------------------------------------------ *)
NextLogin ==
    \/ \E pw \in {"Str0ng!Pass9", "Wr0ng!Guess1"}, o \in {OriginA, OriginB} :
          Login("a@x.io", pw, o, MaxLogLogin)
    \/ Advance(AUTH_LIMIT_WINDOW + 1, MaxLoginTime)

SpecLogin == InitRegistered /\ [][NextLogin]_vars

\* C5: once 5 failed logins for an email lie inside the last 15 minutes, the next
\* login for that email (account not locked) is answered 429, whatever its password
\* and address.
C5_SixthAttemptIs429 ==
    (resp.op = "login" /\ ~resp.lockedBefore /\ resp.failsBefore >= maxAttempts)
    => resp.status = 429

(* ------------------------------------------------------------------ *)
(* SpecLocked: logins while the account gets locked                    *)
(* ------------------------------------------------------------------ *)
NextLocked ==
    \/ \E pw \in {"Str0ng!Pass9", "Wr0ng!Guess1"} : Login("a@x.io", pw, OriginA, MaxLogLocked)
    \/ Login("b@x.io", "Wr0ng!Guess1", OriginA, MaxLogLocked)
    \/ \E u \in DOMAIN users : LockAccount(u)
    \/ Advance(AUTH_LIMIT_WINDOW + 1, MaxLoginTime)

SpecLocked == InitRegistered /\ [][NextLocked]_vars

NextLockout ==
    \/ \E o \in {OriginA, OriginB} : Login("a@x.io", "Wr0ng!Guess1", o, MaxLogLockout)
    \/ Advance(AUTH_LIMIT_WINDOW + 1, MaxLockoutTime)

SpecLockout == InitRegistered /\ [][NextLockout]_vars

\* C4: once 10 failed password logins for the email of an existing account lie
\* inside the last 24 hours, the account is locked and the audit log holds a
\* critical ACCOUNT_LOCKED entry for it.
C4_TenFailuresLock ==
    \A u \in DOMAIN users :
        getFailedLoginAttempts(auditLog, users[u].email, LONG_WINDOW) >= LOCK_ATTEMPTS
        => /\ users[u].locked
           /\ \E i \in DOMAIN auditLog :
                 /\ auditLog[i].eventType = "ACCOUNT_LOCKED"
                 /\ auditLog[i].severity = "critical"
                 /\ auditLog[i].email = users[u].email

(* ------------------------------------------------------------------ *)
(* SpecReset: password reset on an account that may be locked          *)
(* ------------------------------------------------------------------ *)
NextReset ==
    \/ \E u \in DOMAIN users : LockAccount(u)
    \/ \E mailOk \in BOOLEAN : ForgotPassword("a@x.io", OriginA, mailOk, MaxLogReset)
    \/ \E t \in 0..Len(resetTokens), pw \in {"N3w!Passw0rd", "abc"}, svcUp \in BOOLEAN :
          ResetPassword(t, pw, OriginA, svcUp, MaxLogReset)
    \/ \E pw \in {"N3w!Passw0rd", "Str0ng!Pass9"} : Login("a@x.io", pw, OriginA, MaxLogReset)
    \/ Advance(RESET_TOKEN_MINUTES + 1, MaxResetTime)

SpecReset == InitRegistered /\ [][NextReset]_vars

\* C7: a successful POST /auth/reset-password on a locked account leaves the
\* account unlocked.
C7_ResetClearsLock ==
    [][(auditLog' # auditLog /\ resp'.op = "reset" /\ resp'.status = 200 /\ resp'.lockedBefore)
         => ~users'[resp'.user].locked]_vars

(* ------------------------------------------------------------------ *)
(* SpecGuard: access tokens presented to the bearer-protected routes   *)
(* ------------------------------------------------------------------ *)
NextGuard ==
    \/ Register("a@x.io", "Str0ng!Pass9", OriginA, TRUE, MaxUsers, MaxLogGuard)
    \/ Login("a@x.io", "Str0ng!Pass9", OriginC, MaxLogGuard)
    \/ \E op \in ProtectedOps, t \in Presentable,
          o \in {OriginA, OriginB, OriginC, OriginP, OriginN} :
          Protected(op, t, o, MaxLogGuard)
    \/ \E op \in ProtectedOps, h \in Headers : Unauthenticated(op, h, OriginA, MaxLogGuard)
    \/ Advance(ACCESS_TOKEN_MINUTES, MaxGuardTime)

SpecGuard == Init /\ [][NextGuard]_vars

\* a protected route was called with a server-signed, unexpired token
GenuineTokenPresented ==
    /\ resp.op \in ProtectedOps
    /\ resp.token.sig = "server"
    /\ resp.at < resp.token.exp

\* C9: for a token minted with context (A, X) and unexpired,
\* verifyAccessTokenWithContext answers valid exactly for (A, X); for any other
\* (ip, ua) the answer is invalid with mismatch detail: ipChanged iff the IP differs,
\* userAgentChanged iff the user-agent differs, and the original and current values.
C9_ContextBinding ==
    GenuineTokenPresented =>
        LET ip == getClientIP(resp.origin)
            ua == getUserAgent(resp.origin)
            v == resp.ver
        IN /\ v.valid <=> (resp.token.ipAddress = ip /\ resp.token.userAgent = ua)
           /\ ~v.valid =>
                 /\ v.mismatch
                 /\ v.ipChanged <=> (resp.token.ipAddress # ip)
                 /\ v.userAgentChanged <=> (resp.token.userAgent # ua)
                 /\ v.originalIp = resp.token.ipAddress
                 /\ v.currentIp = ip
                 /\ v.originalUserAgent = resp.token.userAgent
                 /\ v.currentUserAgent = ua

C9_Witness ==
    /\ GenuineTokenPresented
    /\ ~resp.ver.valid
    /\ resp.ver.userAgentChanged
    /\ ~resp.ver.ipChanged
    /\ resp.token.ipAddress = getClientIP(resp.origin)

\* C10: on every bearer-protected route a server-signed, unexpired token presented
\* from another IP or user-agent is rejected with the hijack signal, and a
\* SUSPICIOUS_ACTIVITY entry is recorded.
C10_MismatchIsHijackSignal ==
    (GenuineTokenPresented
       /\ (resp.token.ipAddress # getClientIP(resp.origin)
             \/ resp.token.userAgent # getUserAgent(resp.origin)))
    => /\ resp.status = 401
       /\ resp.msg = "Session hijacking detected. Please log in again."
       /\ <<"SUSPICIOUS_ACTIVITY", "high">> \in resp.events


\* a protected route was called with a token that verifyAccessToken refuses
\* (forged signature, or expired)
RefusedTokenPresented ==
    /\ resp.op \in ProtectedOps
    /\ resp.token # NoToken
    /\ ~(resp.token.sig = "server" /\ resp.at < resp.token.exp)

\* C11: on every bearer-protected route a token that is invalid for a reason other
\* than context mismatch is answered 401 and a TOKEN_VALIDATION_FAILED entry of
\* severity medium is recorded.
C11_RefusedTokenAudited ==
    RefusedTokenPresented
    => /\ resp.status = 401
       /\ <<"TOKEN_VALIDATION_FAILED", "medium">> \in resp.events

\* C12: every bearer-protected route, GET /auth/validate included, answers a request
\* without a bearer token with 401.
C12_NoBearerIs401 ==
    (resp.op \in ProtectedOps /\ resp.token = NoToken) => resp.status = 401


C14_ForgotPasswordSameAnswer ==
    [][(resp' # resp /\ resp'.op = "forgot")
         => LET twin == ForgotPasswordOutcome(<<>>, resp'.email, resp'.origin, TRUE)
            IN /\ resp'.status = twin.status
               /\ resp'.msg = twin.msg
               /\ twin.resets = resetTokens
               /\ ~twin.mailSent]_vars


(* ------------------------------------------------------------------ *)
(* SpecVerify: email verification of one account                       *)
(* ------------------------------------------------------------------ *)
NextVerify ==
    \/ \E u \in DOMAIN users, n \in 1..MaxVerificationTokens : VerifyEmail(<<u, n>>, OriginA)
    \/ \E e \in {"a@x.io", "b@x.io"}, mailOk \in BOOLEAN :
          ResendVerification(e, OriginA, mailOk, MaxVerificationTokens)
    \/ Advance(VERIFICATION_LIMIT_WINDOW + 1, MaxVerifyWindowTime)
    \/ Advance(VERIFICATION_TOKEN_MINUTES, MaxVerifyTime)

SpecVerify == InitRegistered /\ [][NextVerify]_vars

\* C15: the answer of POST /auth/resend-verification is the one the same request
\* gets when no account exists for the email.
C15_ResendSameAnswer ==
    [][(resp' # resp /\ resp'.op = "resend")
         => LET twin == ResendVerificationOutcome(<<>>, resp'.email, resp'.origin, TRUE)
            IN /\ resp'.status = twin.status
               /\ resp'.msg = twin.msg]_vars


(* ------------------------------------------------------------------ *)
(* SpecTrack: failed logins for three emails from one address          *)
(* ------------------------------------------------------------------ *)
\* the audit log after registration and k failed logins for the unknown c@x.io
\* from OriginA
RECURSIVE EarlierFailures(_)
EarlierFailures(k) ==
    IF k = 0 THEN trackRegistration(<<>>, TRUE, "a@x.io", OriginA, 1, "")
    ELSE trackFailedLogin(EarlierFailures(k - 1), "c@x.io", OriginA, "User not found", 0).log

InitTrack ==
    /\ now = 0
    /\ users = createUser(<<>>, "a@x.io", hashPassword("Str0ng!Pass9"))
    /\ refreshTokens = <<>>
    /\ parentOf = <<>>
    /\ resetTokens = <<>>
    /\ auditLog = EarlierFailures(MaxEarlierFailures)
    /\ rateHits = [l \in Limiters |-> [k \in Socks |->
                      IF l = "auth" /\ k = OriginA.sock
                      THEN [count |-> MaxEarlierFailures, resetAt |-> AUTH_LIMIT_WINDOW]
                      ELSE [count |-> 0, resetAt |-> 0]]]
    /\ issued = {}
    /\ pc = [p \in Procs |-> "idle"]
    /\ call = [p \in Procs |-> NoCall]
    /\ resp = NoResp

NextTrack ==
    \/ \E o \in {OriginA, OriginP} : Login("a@x.io", "Wr0ng!Guess1", o, MaxLogTrack)
    \/ Login("b@x.io", "Wr0ng!Guess1", OriginP, MaxLogTrack)
    \/ Advance(SHORT_WINDOW + 1, MaxTrackTime)

SpecTrack == InitTrack /\ [][NextTrack]_vars

\* the last request was a login that reached trackFailedLogin
FailedLoginTracked ==
    /\ resp.op = "login"
    /\ resp.status \in {400, 429}
    /\ resp.msg # "limiter"

\* LOGIN_FAILED entries of the 15 minutes up to the last request, its own
\* included, for the request's email and for its source address
FailedForEmail ==
    Cardinality({i \in DOMAIN auditLog :
                    /\ auditLog[i].eventType = "LOGIN_FAILED"
                    /\ auditLog[i].timestamp >= resp.at - 15
                    /\ auditLog[i].email = resp.email})

FailedForIp ==
    Cardinality({i \in DOMAIN auditLog :
                    /\ auditLog[i].eventType = "LOGIN_FAILED"
                    /\ auditLog[i].timestamp >= resp.at - 15
                    /\ auditLog[i].ipAddress = getClientIP(resp.origin)})

\* C16: trackFailedLogin (not locking) answers blocked and records LOGIN_BLOCKED
\* (critical) exactly when the LOGIN_FAILED entries of the last 15 minutes, the
\* current one included, number >= 5 for the email or >= 10 for the IP; otherwise
\* it answers not blocked with attemptsLeft = 5 - the email count, within 1..4.
C16_BlockedExactlyAtThreshold ==
    (FailedLoginTracked /\ resp.user = findUserByEmail(users, resp.email)
                        /\ (resp.user # 0 => ~users[resp.user].locked)) =>
        LET over == FailedForEmail >= 5 \/ FailedForIp >= 10
        IN /\ resp.blocked <=> over
           /\ (<<"LOGIN_BLOCKED", "critical">> \in resp.events) <=> over
           /\ ~over => /\ resp.attemptsLeft = 5 - FailedForEmail
                       /\ resp.attemptsLeft \in 1..4

C16_Witness ==
    /\ FailedLoginTracked
    /\ resp.blocked
    /\ FailedForEmail < 5
    /\ FailedForIp >= 10

\* C17: the LOGIN_FAILED entry is critical when the 15-minute count, this
\* attempt included, is >= 5 for the email or >= 10 for the IP, else high when
\* >= 3 for the email or >= 5 for the IP, else medium when the email count is
\* >= 2, else low; the first three wrong-password logins for an email from an
\* IP with no earlier failures answer 400 "Invalid email or password" with
\* severities low, medium, high.
C17_SeverityByCount ==
    LET severity == IF FailedForEmail >= 5 \/ FailedForIp >= 10 THEN "critical"
                    ELSE IF FailedForEmail >= 3 \/ FailedForIp >= 5 THEN "high"
                    ELSE IF FailedForEmail >= 2 THEN "medium"
                    ELSE "low"
        failedLogin == FailedLoginTracked /\ resp.pwChecked
    IN /\ FailedLoginTracked =>
             {e \in resp.events : e[1] = "LOGIN_FAILED"} = {<<"LOGIN_FAILED", severity>>}
       /\ (failedLogin /\ FailedForEmail <= 3 /\ FailedForIp = FailedForEmail) =>
             /\ resp.status = 400
             /\ resp.msg = "Invalid email or password"
             /\ <<"LOGIN_FAILED", <<"low", "medium", "high">>[FailedForEmail]>> \in resp.events

C17_Witness ==
    /\ FailedLoginTracked /\ resp.pwChecked
    /\ resp.status = 400
    /\ FailedForEmail = 3 /\ FailedForIp = 3
    /\ {auditLog[i].severity : i \in {j \in DOMAIN auditLog :
            auditLog[j].eventType = "LOGIN_FAILED" /\ auditLog[j].email = resp.email}}
         = {"low", "medium", "high"}

(* ------------------------------------------------------------------ *)
(* SpecFlood: password reset requests for two emails, one client IP    *)
(* ------------------------------------------------------------------ *)
NextFlood ==
    \/ \E e \in {"a@x.io", "b@x.io"} : ForgotPassword(e, OriginA, TRUE, MaxLogFlood)
    \/ ForgotPassword("b@x.io", OriginP, TRUE, MaxLogFlood)
    \/ Advance(RESET_WINDOW + 1, MaxFloodTime)

SpecFlood == InitRegistered /\ [][NextFlood]_vars

\* C18: a password reset request is blocked exactly when the
\* PASSWORD_RESET_REQUESTED entries of the last 60 minutes, the current one
\* included, exceed 3 for the email or 5 for the IP; the reason names the email
\* when the email cap is exceeded and the location otherwise; a blocked request
\* creates no reset token.
C18_ResetFloodBlocked ==
    [][(auditLog' # auditLog /\ resp'.op = "forgot") =>
          LET Recent(d) == /\ d.eventType = "PASSWORD_RESET_REQUESTED"
                           /\ d.timestamp >= resp'.at - 60
              forEmail == Cardinality({i \in DOMAIN auditLog' :
                              Recent(auditLog'[i]) /\ auditLog'[i].email = resp'.email})
              forIp == Cardinality({i \in DOMAIN auditLog' :
                              Recent(auditLog'[i])
                              /\ auditLog'[i].ipAddress = getClientIP(resp'.origin)})
          IN /\ resp'.status = 429 <=> (forEmail > 3 \/ forIp > 5)
             /\ resp'.status = 429 =>
                   /\ resp'.msg = IF forEmail > 3 THEN "email" ELSE "location"
                   /\ resetTokens' = resetTokens]_vars

C18_Witness ==
    /\ resp.op = "forgot"
    /\ resp.status = 429
    /\ resp.msg = "location"
    /\ resp.user # 0
    /\ Len(resetTokens) > 0

(* ------------------------------------------------------------------ *)
(* The audit store unavailable: createAuditLog and the count queries   *)
(* reject. logSecurityEvent catches the insert's failure; the count    *)
(* queries of trackFailedLogin and trackPasswordResetRequest are       *)
(* awaited outside any try, so their rejection reaches errorHandler.   *)
(* ------------------------------------------------------------------ *)
LoginOutcomeAuditDown(e, pw, o) ==
    LET base == [status |-> 500, msg |-> "audit store unavailable", users |-> users,
                 tokens |-> refreshTokens, log |-> auditLog, access |-> NoToken,
                 user |-> 0, pwChecked |-> FALSE, blocked |-> FALSE, attemptsLeft |-> 0]
        user == findUserByEmail(users, e)
    IN IF RateLimited("auth", o.sock)
       THEN [base EXCEPT !.status = 429, !.msg = "limiter"]
       ELSE IF user = 0
       THEN base
       ELSE IF users[user].locked
       THEN [base EXCEPT !.status = 403, !.msg = "Account is locked", !.user = user]
       ELSE IF ~verifyPassword(pw, users[user].passwordHash)
       THEN [base EXCEPT !.user = user, !.pwChecked = TRUE]
       ELSE [base EXCEPT !.status = 200, !.msg = "ok",
                         !.tokens = createRefreshToken(refreshTokens, user, o),
                         !.access = generateAccessToken(user, users[user].email, users[user].role,
                                                        getClientIP(o), getUserAgent(o)),
                         !.user = user, !.pwChecked = TRUE]

LoginAuditDown(e, pw, o) ==
    LET r == LoginOutcomeAuditDown(e, pw, o)
    IN /\ r.status = 200 => Len(refreshTokens) < MaxTokens
       /\ rateHits' = RateHitsAfter("auth", o.sock)
       /\ refreshTokens' = r.tokens
       /\ parentOf' = IF r.status = 200 THEN Append(parentOf, 0) ELSE parentOf
       /\ issued' = IF r.status = 200 THEN issued \cup {r.access} ELSE issued
       /\ resp' = [NoResp EXCEPT !.at = now, !.op = "login", !.status = r.status, !.msg = r.msg,
                                 !.email = e, !.password = pw, !.origin = o, !.user = r.user,
                                 !.pwChecked = r.pwChecked, !.minted = (r.status = 200),
                                 !.auditUp = FALSE]
       /\ UNCHANGED <<users, resetTokens, auditLog, now, pc, call>>

ForgotPasswordAuditDown(e, o) ==
    LET limited == RateLimited("passwordReset", o.sock)
    IN /\ rateHits' = RateHitsAfter("passwordReset", o.sock)
       /\ resp' = [NoResp EXCEPT !.at = now, !.op = "forgot", !.email = e, !.origin = o,
                                 !.status = IF limited THEN 429 ELSE 500,
                                 !.msg = IF limited THEN "limiter" ELSE "audit store unavailable",
                                 !.user = findUserByEmail(users, e),
                                 !.auditUp = FALSE]
       /\ UNCHANGED <<users, refreshTokens, parentOf, resetTokens, auditLog, now, issued, pc, call>>

NextAudit ==
    \/ \E pw \in {"Str0ng!Pass9", "Wr0ng!Guess1"} : Login("a@x.io", pw, OriginA, MaxLogAudit)
    \/ \E pw \in {"Str0ng!Pass9", "Wr0ng!Guess1"} : LoginAuditDown("a@x.io", pw, OriginA)
    \/ ForgotPassword("a@x.io", OriginA, TRUE, MaxLogAudit)
    \/ ForgotPasswordAuditDown("a@x.io", OriginA)

SpecAudit == InitRegistered /\ [][NextAudit]_vars

\* C19: with the audit store unavailable, a login and a forgot-password request
\* are answered as they would be with the store available (same status, same
\* message, tokens minted alike); a correct-credential login still succeeds.
C19_AuditFailureNeverBlocks ==
    [][~resp'.auditUp =>
          /\ resp'.op = "login" =>
                LET twin == LoginOutcome(resp'.email, resp'.password, resp'.origin)
                IN /\ resp'.status = twin.status
                   /\ resp'.msg = twin.msg
                   /\ resp'.minted = (twin.status = 200)
          /\ resp'.op = "forgot" =>
                LET twin == ForgotPasswordOutcome(users, resp'.email, resp'.origin, TRUE)
                IN /\ resp'.status = twin.status
                   /\ resp'.msg = twin.msg
                   /\ resetTokens' = twin.resets]_vars

(* ------------------------------------------------------------------ *)
(* POST /auth/register step by step: the existence check and the       *)
(* insert are separate awaits, with hashPassword awaited between them  *)
(* ------------------------------------------------------------------ *)
RegisterCheck(p, e, pw, o, maxUsers, cap) ==
    LET r == RegisterOutcome(e, pw, o, TRUE)
        inFlight == Cardinality({q \in Procs : pc[q] = "registering"})
    IN /\ pc[p] = "idle"
       /\ Len(auditLog) + inFlight + 1 <= cap
       /\ r.status = 201 => /\ Len(users) + inFlight < maxUsers
                            /\ Len(refreshTokens) + inFlight < MaxTokens
       /\ rateHits' = RateHitsAfter("registration", o.sock)
       /\ IF r.status = 201
          THEN /\ pc' = [pc EXCEPT ![p] = "registering"]
               /\ call' = [call EXCEPT ![p] = [NoCall EXCEPT !.op = "register", !.email = e,
                                                            !.password = pw, !.origin = o]]
               /\ UNCHANGED <<auditLog, resp>>
          ELSE /\ auditLog' = r.log
               /\ resp' = [NoResp EXCEPT !.at = now, !.op = "register", !.status = r.status,
                                         !.msg = r.msg, !.email = e, !.origin = o,
                                         !.events = Added(r.log)]
               /\ UNCHANGED <<pc, call>>
       /\ UNCHANGED <<users, refreshTokens, parentOf, resetTokens, now, issued>>

RegisterInsert(p) ==
    LET c == call[p]
        us1 == createUser(users, c.email, hashPassword(c.password))
        id == Len(us1)
        access == generateAccessToken(id, us1[id].email, us1[id].role,
                                      getClientIP(c.origin), getUserAgent(c.origin))
        log1 == trackRegistration(auditLog, TRUE, us1[id].email, c.origin, id, "")
    IN /\ pc[p] = "registering"
       /\ users' = us1
       /\ refreshTokens' = createRefreshToken(refreshTokens, id, c.origin)
       /\ parentOf' = Append(parentOf, 0)
       /\ auditLog' = log1
       /\ issued' = issued \cup {access}
       /\ resp' = [NoResp EXCEPT !.at = now, !.op = "register", !.status = 201, !.msg = "created",
                                 !.email = c.email, !.origin = c.origin, !.minted = TRUE,
                                 !.user = id, !.events = Added(log1)]
       /\ pc' = [pc EXCEPT ![p] = "idle"]
       /\ call' = [call EXCEPT ![p] = NoCall]
       /\ UNCHANGED <<resetTokens, now, rateHits>>

NextRegister ==
    \/ \E p \in Procs, e \in {"a@x.io", "A@x.io"}, o \in {OriginA, OriginB} :
          RegisterCheck(p, e, "Str0ng!Pass9", o, MaxRegistered, MaxLogRegister)
    \/ \E p \in Procs : RegisterInsert(p)

SpecRegister == Init /\ [][NextRegister]_vars

\* C20: no two account records hold the same normalized (lower-cased, trimmed)
\* email, also when two registrations for the same email, in any letter case,
\* interleave their existence check and their insert.
C20_NormalizedEmailUnique ==
    \A i, j \in DOMAIN users :
        i # j => trim(toLowerCase(users[i].email)) # trim(toLowerCase(users[j].email))

\* C21: whenever an account's locked flag is true, that account has no
\* non-revoked refresh token.
C21_LockedAccountHasNoLiveToken ==
    \A i \in DOMAIN refreshTokens :
        users[refreshTokens[i].userId].locked => refreshTokens[i].revoked

(* ------------------------------------------------------------------ *)
(* SpecLogoutAll: two accounts, logout-all and refresh requests        *)
(* ------------------------------------------------------------------ *)
NextLogoutAll ==
    \/ Register("b@x.io", "Str0ng!Pass9", OriginB, TRUE, MaxAccounts, MaxLogLogoutAll)
    \/ Login("a@x.io", "Str0ng!Pass9", OriginA, MaxLogLogoutAll)
    \/ \E t \in issued, o \in {OriginA, OriginB} : Protected("logoutAll", t, o, MaxLogLogoutAll)
    \/ \E t \in DOMAIN refreshTokens : RefreshStart(1, t, OriginA, MaxLogLogoutAll)
    \/ RefreshUser(1)
    \/ RotateFind(1)
    \/ RotateRevoke(1)
    \/ RotateCreate(1)
    \/ Finish(1)

SpecLogoutAll == InitRegistered /\ [][NextLogoutAll]_vars

Resolve(token, logId, o, cap) ==
    LET g == GuardOutcome("admin", token, o)
    IN /\ Len(g.log) <= cap
       /\ auditLog' = IF g.status = 200 THEN markAsResolved(auditLog, logId) ELSE g.log
       /\ resp' = [NoResp EXCEPT !.at = now, !.op = "resolve", !.status = g.status, !.msg = g.msg,
                                 !.origin = o, !.token = token, !.ver = g.ver, !.logId = logId,
                                 !.events = Added(g.log)]
       /\ UNCHANGED <<users, refreshTokens, parentOf, resetTokens, now, rateHits, issued, pc, call>>

Cleanup(daysToKeep) ==
    /\ auditLog' = cleanupOldLogs(auditLog, daysToKeep)
    /\ resp' = [NoResp EXCEPT !.at = now, !.op = "cleanup", !.daysToKeep = daysToKeep]
    /\ UNCHANGED <<users, refreshTokens, parentOf, resetTokens, now, rateHits, issued, pc, call>>

\* an administrator account exists (createUser with role 'admin'); nobody is signed in
InitAdmin ==
    /\ now = 0
    /\ users = <<[createUser(<<>>, "a@x.io", hashPassword("Str0ng!Pass9"))[1]
                     EXCEPT !.role = "admin"]>>
    /\ refreshTokens = <<>>
    /\ parentOf = <<>>
    /\ resetTokens = <<>>
    /\ auditLog = <<>>
    /\ rateHits = [l \in Limiters |-> [k \in Socks |-> [count |-> 0, resetAt |-> 0]]]
    /\ issued = {}
    /\ pc = [p \in Procs |-> "idle"]
    /\ call = [p \in Procs |-> NoCall]
    /\ resp = NoResp

NextAdmin ==
    \/ \E pw \in {"Str0ng!Pass9", "Wr0ng!Guess1"} : Login("a@x.io", pw, OriginA, MaxLogAdmin)
    \/ \E t \in issued, logId \in 0..Len(auditLog) : Resolve(t, logId, OriginA, MaxLogAdmin)
    \/ Cleanup(RETENTION_DAYS)
    \/ Advance(RETENTION_DAYS * MINUTES_PER_DAY + 1, MaxAdminTime)

SpecAdmin == InitAdmin /\ [][NextAdmin]_vars

\* logins and maintenance only; time moves by the retention period exactly
NextCleanup ==
    \/ \E pw \in {"Str0ng!Pass9", "Wr0ng!Guess1"} : Login("a@x.io", pw, OriginA, MaxLogCleanup)
    \/ Cleanup(RETENTION_DAYS)
    \/ Advance(RETENTION_DAYS * MINUTES_PER_DAY, MaxCleanupTime)

SpecCleanup == InitAdmin /\ [][NextCleanup]_vars

\* an entry but for its resolved flag
Immutable(d) == [f \in DOMAIN d \ {"resolved"} |-> d[f]]

\* C23: an existing audit entry keeps every field but resolved as created;
\* resolved only goes from false to true, and only through the administrator's
\* mark-resolved operation.
C23_AuditEntriesAppendOnly ==
    [][IF Len(auditLog') < Len(auditLog)
       THEN \A j \in DOMAIN auditLog' : \E i \in DOMAIN auditLog : auditLog'[j] = auditLog[i]
       ELSE \A i \in DOMAIN auditLog :
               /\ Immutable(auditLog'[i]) = Immutable(auditLog[i])
               /\ auditLog[i].resolved => auditLog'[i].resolved
               /\ auditLog'[i].resolved # auditLog[i].resolved =>
                     /\ resp'.op = "resolve" /\ resp'.status = 200 /\ resp'.logId = i
                     /\ resp'.token.role = "admin"]_vars

C23_Witness ==
    /\ resp.op = "resolve" /\ resp.status = 200
    /\ Len(auditLog) >= 2
    /\ resp.logId \in DOMAIN auditLog
    /\ auditLog[resp.logId].resolved
    /\ \E i \in DOMAIN auditLog : ~auditLog[i].resolved

\* C24: cleanupOldLogs(d) deletes exactly the entries older than d days whose
\* severity is low or medium; no operation deletes an entry of severity high
\* or critical, and entries not older than the horizon stay as they are.
C24_CleanupDeletesOldLowSeverity ==
    [][/\ (resp'.op = "cleanup" /\ now' = now) =>
             LET horizon == now - resp'.daysToKeep * 24 * 60
                 Stays(d) == d.timestamp >= horizon \/ d.severity \in {"high", "critical"}
                 Goes(d) == d.timestamp < horizon /\ d.severity \in {"low", "medium"}
             IN /\ auditLog' = SelectSeq(auditLog, Stays)
                /\ \A j \in DOMAIN auditLog' : ~Goes(auditLog'[j])
       /\ \A i \in DOMAIN auditLog :
             auditLog[i].severity \in {"high", "critical"} =>
                \E j \in DOMAIN auditLog' : Immutable(auditLog'[j]) = Immutable(auditLog[i])
       /\ resp'.op # "cleanup" => Len(auditLog') >= Len(auditLog)
      ]_vars

C24_Witness ==
    /\ resp.op = "cleanup"
    /\ now = resp.at
    /\ now = 2 * RETENTION_DAYS * MINUTES_PER_DAY
    /\ \E i \in DOMAIN auditLog : auditLog[i].timestamp = 0 /\ auditLog[i].severity = "high"
    /\ \E i \in DOMAIN auditLog :
          auditLog[i].timestamp = RETENTION_DAYS * MINUTES_PER_DAY /\ auditLog[i].severity = "low"
    /\ ~\E i \in DOMAIN auditLog :
          auditLog[i].timestamp = 0 /\ auditLog[i].severity \in {"low", "medium"}

(* ------------------------------------------------------------------ *)
(* POST /profile/change-password (behind requireAuth)                  *)
(* ------------------------------------------------------------------ *)
ChangePasswordOutcome(token, o, currentPassword, newPassword, svcUp) ==
    LET g == GuardOutcome("profile", token, o)
        base == [status |-> 400, msg |-> "", users |-> users, log |-> auditLog]
        user == findUserById(users, token.userId)
    IN IF g.status # 200
       THEN [base EXCEPT !.status = g.status, !.msg = g.msg, !.log = g.log]
       ELSE IF user = 0
       THEN [base EXCEPT !.status = 404, !.msg = "User not found"]
       ELSE IF ~verifyPassword(currentPassword, users[user].passwordHash)
       THEN [base EXCEPT !.msg = "Current password is incorrect",
                         !.log = trackSuspiciousActivity(auditLog, "Failed password change attempt",
                                                         o, user, users[user].email)]
       ELSE IF ~validatePasswordStrength(newPassword).valid
       THEN [base EXCEPT !.msg = "weak password"]
       ELSE IF ~validatePasswordNotBreached(newPassword, svcUp).valid
       THEN [base EXCEPT !.msg = "breached password"]
       ELSE [base EXCEPT !.status = 200, !.msg = "Password changed successfully",
                         !.users = updatePassword(users, user, hashPassword(newPassword))]

\* the route ending the account's sessions when the password is changed
ChangePasswordRevoking(token, o, currentPassword, newPassword, svcUp, cap) ==
    LET r == ChangePasswordOutcome(token, o, currentPassword, newPassword, svcUp)
    IN /\ Len(r.log) <= cap
       /\ users' = r.users
       /\ auditLog' = r.log
       /\ refreshTokens' = IF r.status = 200
                           THEN revokeAllUserRefreshTokens(refreshTokens, token.userId)
                           ELSE refreshTokens
       /\ resp' = [NoResp EXCEPT !.at = now, !.op = "change", !.status = r.status, !.msg = r.msg,
                                 !.origin = o, !.token = token, !.current = currentPassword,
                                 !.password = newPassword, !.svcUp = svcUp,
                                 !.events = Added(r.log)]
       /\ UNCHANGED <<parentOf, resetTokens, now, rateHits, issued, pc, call>>

ChangePassword(token, o, currentPassword, newPassword, svcUp, cap) ==
    LET r == ChangePasswordOutcome(token, o, currentPassword, newPassword, svcUp)
    IN /\ Len(r.log) <= cap
       /\ users' = r.users
       /\ auditLog' = r.log
       /\ resp' = [NoResp EXCEPT !.at = now, !.op = "change", !.status = r.status, !.msg = r.msg,
                                 !.origin = o, !.token = token, !.current = currentPassword,
                                 !.password = newPassword, !.svcUp = svcUp,
                                 !.events = Added(r.log)]
       /\ UNCHANGED <<refreshTokens, parentOf, resetTokens, now, rateHits, issued, pc, call>>

(* ------------------------------------------------------------------ *)
(* SpecBreach: the three operations that take a new password           *)
(* ------------------------------------------------------------------ *)
NewPasswords == {"N3w!Passw0rd", "P@ssw0rd", "Padd3d!Entry0"}

NextBreach ==
    \/ \E pw \in NewPasswords, svcUp \in BOOLEAN :
          Register("b@x.io", pw, OriginB, svcUp, MaxAccounts, MaxLogBreach)
    \/ ForgotPassword("a@x.io", OriginA, TRUE, MaxLogBreach)
    \/ \E t \in DOMAIN resetTokens, pw \in NewPasswords, svcUp \in BOOLEAN :
          ResetPassword(t, pw, OriginA, svcUp, MaxLogBreach)
    \/ \E t \in issued, cur \in {"Str0ng!Pass9", "P@ssw0rd"}, pw \in NewPasswords,
          svcUp \in BOOLEAN :
          ChangePassword(t, OriginA, cur, pw, svcUp, MaxLogBreach)

SpecBreach == InitRegistered /\ [][NextBreach]_vars

\* the account records but for the password hashes
SansHash(us) == [i \in DOMAIN us |-> [f \in DOMAIN us[i] \ {"passwordHash"} |-> us[i][f]]]

\* C25: when the breach service is unreachable or errs, registration, password
\* reset and password change go on exactly as for a password that is not
\* breached; when it answers, the password is rejected exactly when it is found
\* with an exposure count >= 1.
C25_BreachCheckFailsOpen ==
    [][LET pw == resp'.password
           rejected == resp'.svcUp /\ BreachFound(pw) /\ BreachCount(pw) >= 1
           twin == CASE resp'.op = "register" ->
                           RegisterOutcome(resp'.email, "N3w!Passw0rd", resp'.origin, TRUE)
                     [] resp'.op = "reset" ->
                           ResetPasswordOutcome(resp'.reset, "N3w!Passw0rd", resp'.origin, TRUE)
                     [] resp'.op = "change" ->
                           ChangePasswordOutcome(resp'.token, resp'.origin, resp'.current,
                                                 "N3w!Passw0rd", TRUE)
           \* the request got as far as the breach check
           reached == CASE resp'.op = "register" ->
                              twin.msg \notin {"limiter", "Invalid email format"}
                        [] resp'.op = "reset" -> TRUE
                        [] resp'.op = "change" -> twin.msg = "Password changed successfully"
       IN (resp'.op \in {"register", "reset", "change"} /\ reached) =>
             IF rejected
             THEN /\ resp'.status = 400 /\ resp'.msg = "breached password"
                  /\ users' = users
             ELSE /\ resp'.status = twin.status /\ resp'.msg = twin.msg
                  /\ SansHash(users') = SansHash(twin.users)
                  /\ auditLog' = twin.log
                  /\ twin.status \in {200, 201} =>
                        \E u \in DOMAIN users' : users'[u].passwordHash = hashPassword(pw)]_vars

C25_Witness ==
    /\ resp.op = "register" /\ ~resp.svcUp /\ resp.password = "P@ssw0rd"
    /\ resp.status = 201
    /\ users[resp.user].passwordHash = hashPassword("P@ssw0rd")

(* ------------------------------------------------------------------ *)
(* SpecReject: registrations, most of them refused                     *)
(* ------------------------------------------------------------------ *)
NextReject ==
    \/ \E e \in {"a@x.io", "A@x.io", "not-an-email"}, pw \in {"Str0ng!Pass9", "abc", "P@ssw0rd"},
          svcUp \in BOOLEAN :
          Register(e, pw, OriginA, svcUp, MaxRegistered, MaxLogReject)

SpecReject == Init /\ [][NextReject]_vars

\* C26: a registration answered 400 creates no account and no refresh token
\* and returns no token; all it may add is one REGISTRATION_FAILED audit entry.
C26_RejectedRegistrationAddsNothing ==
    [][(resp'.op = "register" /\ resp'.status = 400) =>
          /\ users' = users
          /\ refreshTokens' = refreshTokens
          /\ parentOf' = parentOf
          /\ resetTokens' = resetTokens
          /\ issued' = issued
          /\ ~resp'.minted
          /\ \/ auditLog' = auditLog
             \/ /\ Len(auditLog') = Len(auditLog) + 1
                /\ SubSeq(auditLog', 1, Len(auditLog)) = auditLog
                /\ auditLog'[Len(auditLog')].eventType = "REGISTRATION_FAILED"]_vars

C26_Witness ==
    /\ resp.op = "register" /\ resp.status = 400
    /\ resp.msg = "An account with this email already exists"
    /\ resp.email = "A@x.io"
    /\ Len(users) = 1
    /\ auditLog[Len(auditLog)].eventType = "REGISTRATION_FAILED"

(* ------------------------------------------------------------------ *)
(* SpecExpiry: access tokens presented minute by minute                *)
(* ------------------------------------------------------------------ *)
NextExpiry ==
    \/ Login("a@x.io", "Str0ng!Pass9", OriginA, MaxLogExpiry)
    \/ \E t \in issued, o \in {OriginA, OriginB} : Protected("me", t, o, MaxLogExpiry)
    \/ Advance(1, MaxExpiryTime)

SpecExpiry == InitRegistered /\ [][NextExpiry]_vars

\* C27: with time in whole minutes, a token minted at t passes verifyAccessToken
\* at every time up to t+14 and gives null at every time after t+15, from
\* whatever origin it is presented.
C27_AccessTokenLifetime ==
    (resp.op = "me" /\ resp.token.sig = "server") =>
        /\ resp.at <= resp.token.iat + 14 => resp.ver.payload
        /\ resp.at > resp.token.iat + 15 => ~resp.ver.payload /\ resp.status = 401

\* the first token, still accepted at minute 14 (when presenting it from another
\* address was logged as a hijacking attempt), is refused at minute 16
C27_Witness ==
    /\ resp.op = "me" /\ resp.origin = OriginB
    /\ resp.token.iat = 0
    /\ resp.at = 16
    /\ ~resp.ver.payload
    /\ \E i \in DOMAIN auditLog : /\ auditLog[i].eventType = "SUSPICIOUS_ACTIVITY"
                                  /\ auditLog[i].timestamp = 14

(* ------------------------------------------------------------------ *)
(* SpecChain: one client rotating its refresh token again and again    *)
(* ------------------------------------------------------------------ *)
\* the token the client holds: the one the last rotation returned
Held == Len(refreshTokens)

NextChain ==
    \/ Held < MaxChain /\ \E o \in {OriginA, OriginB} : RotateCall(1, Held, 1, o)
    \/ RotateFind(1)
    \/ RotateRevoke(1)
    \/ RotateCreateUpTo(1, MaxChain)
    \/ Finish(1)
    \/ pc[1] = "idle" /\ Advance(MINUTES_PER_DAY, MaxChainTime)

SpecChain == InitRegistered /\ [][NextChain]_vars

\* C28: k successive rotations (k up to 5) of a freshly issued refresh token,
\* each of the token the previous one returned, all succeed and return pairwise
\* distinct values; afterwards every earlier token of the chain is revoked and
\* exactly the last returned one is valid.
C28_RotationChain ==
    /\ \A i, j \in DOMAIN refreshTokens :
          i # j => refreshTokens[i].token # refreshTokens[j].token
    /\ pc[1] = "done" =>
          /\ call[1].result # 0
          /\ call[1].result = Len(refreshTokens)
          /\ refreshTokens[call[1].result].token # refreshTokens[call[1].token].token
          /\ parentOf[call[1].result] = call[1].token
    /\ pc[1] \in {"idle", "done"} =>
          /\ Len(refreshTokens) <= MaxChain
          /\ \A i \in DOMAIN refreshTokens :
                Valid(refreshTokens, i) <=> i = Len(refreshTokens)
          /\ \A i \in 1..(Len(refreshTokens) - 1) :
                Revoked(refreshTokens, i) /\ parentOf[i + 1] = i

C28_Witness ==
    /\ pc[1] = "done" /\ call[1].op = "rotate"
    /\ call[1].token = 5 /\ call[1].result = 6
    /\ parentOf = <<0, 1, 2, 3, 4, 5>>
    /\ \A i \in 1..5 : Revoked(refreshTokens, i)
    /\ Valid(refreshTokens, 6)
    /\ now = 3 * MINUTES_PER_DAY

(* ------------------------------------------------------------------ *)
(* SpecRace: failed logins for one email, handled concurrently         *)
(* ------------------------------------------------------------------ *)
InFlight == {q \in Procs : pc[q] \notin {"idle", "done"}}

\* POST /auth/login up to the call of trackFailedLogin, for a request that
\* does not authenticate
LoginBegin(p, e, pw, o, cap) ==
    LET user == findUserByEmail(users, e)
        c == [NoCall EXCEPT !.op = "login", !.email = e, !.password = pw, !.origin = o,
                            !.user = user]
    IN /\ pc[p] = "idle"
       /\ user = 0 \/ users[user].locked \/ ~verifyPassword(pw, users[user].passwordHash)
       /\ Len(auditLog) + 2 * (Cardinality(InFlight) + 1) <= cap
       /\ rateHits' = RateHitsAfter("auth", o.sock)
       /\ IF RateLimited("auth", o.sock)
          THEN /\ pc' = [pc EXCEPT ![p] = "done"]
               /\ call' = [call EXCEPT ![p] = [c EXCEPT !.status = 429]]
               /\ UNCHANGED auditLog
          ELSE IF user # 0 /\ users[user].locked
          THEN /\ pc' = [pc EXCEPT ![p] = "done"]
               /\ call' = [call EXCEPT ![p] = [c EXCEPT !.status = 403]]
               /\ auditLog' = trackSuspiciousActivity(auditLog, "Login attempt on locked account",
                                                      o, user, users[user].email)
          ELSE /\ pc' = [pc EXCEPT ![p] = "track_read"]
               /\ call' = [call EXCEPT ![p] = c]
               /\ UNCHANGED auditLog
       /\ UNCHANGED <<users, refreshTokens, parentOf, resetTokens, now, issued, resp>>

\* trackFailedLogin: the three counts read from the audit log
TrackRead(p) ==
    /\ pc[p] = "track_read"
    /\ call' = [call EXCEPT
                  ![p].shortTermAttempts = getFailedLoginAttempts(auditLog, call[p].email, SHORT_WINDOW),
                  ![p].longTermAttempts = getFailedLoginAttempts(auditLog, call[p].email, LONG_WINDOW),
                  ![p].ipAttempts = getFailedLoginAttemptsByIP(auditLog, getClientIP(call[p].origin),
                                                               SHORT_WINDOW)]
    /\ pc' = [pc EXCEPT ![p] = "track_log"]
    /\ UNCHANGED <<users, refreshTokens, parentOf, resetTokens, auditLog, now,
                   rateHits, issued, resp>>

\* trackFailedLogin: the LOGIN_FAILED entry, its severity from the counts read
TrackLog(p) ==
    LET totalAttempts == call[p].shortTermAttempts + 1
        ipTotalAttempts == call[p].ipAttempts + 1
        severity == IF totalAttempts >= 5 \/ ipTotalAttempts >= 10 THEN "critical"
                    ELSE IF totalAttempts >= 3 \/ ipTotalAttempts >= 5 THEN "high"
                    ELSE IF totalAttempts >= 2 THEN "medium"
                    ELSE "low"
    IN /\ pc[p] = "track_log"
       /\ auditLog' = logSecurityEvent(auditLog, "LOGIN_FAILED", severity, 0, call[p].email,
                                       getClientIP(call[p].origin),
                                       IF call[p].user = 0 THEN "User not found"
                                       ELSE "Invalid password")
       /\ pc' = [pc EXCEPT ![p] = "track_decide"]
       /\ UNCHANGED <<users, refreshTokens, parentOf, resetTokens, now, rateHits,
                      issued, call, resp>>

\* trackFailedLogin: the block decision (the handler passes no userId, so the
\* lockout branch is not taken), and the handler's 429 or 400
TrackDecide(p) ==
    LET totalAttempts == call[p].shortTermAttempts + 1
        ipTotalAttempts == call[p].ipAttempts + 1
        blocked == totalAttempts >= maxAttempts \/ ipTotalAttempts >= IP_BLOCK_ATTEMPTS
    IN /\ pc[p] = "track_decide"
       /\ auditLog' = IF blocked
                      THEN logSecurityEvent(auditLog, "LOGIN_BLOCKED", "critical", 0, call[p].email,
                                            getClientIP(call[p].origin), "Too many failed attempts")
                      ELSE auditLog
       /\ call' = [call EXCEPT ![p].status = IF blocked THEN 429 ELSE 400]
       /\ resp' = [NoResp EXCEPT !.at = now, !.op = "login",
                                 !.status = IF blocked THEN 429 ELSE 400,
                                 !.msg = IF blocked THEN "Too many failed login attempts"
                                         ELSE "Invalid email or password",
                                 !.email = call[p].email, !.password = call[p].password,
                                 !.origin = call[p].origin, !.user = call[p].user,
                                 !.blocked = blocked,
                                 !.attemptsLeft = IF blocked THEN 0 ELSE maxAttempts - totalAttempts,
                                 !.failsBefore = getFailedLoginAttempts(auditLog, call[p].email,
                                                                        SHORT_WINDOW) - 1,
                                 !.notBlocked = resp.notBlocked + (IF blocked THEN 0 ELSE 1)]
       /\ pc' = [pc EXCEPT ![p] = "done"]
       /\ UNCHANGED <<users, refreshTokens, parentOf, resetTokens, now, rateHits, issued>>

NextRace ==
    \/ \E p \in Procs, o \in {OriginA, OriginB} :
          LoginBegin(p, "a@x.io", "Wr0ng!Guess1", o, MaxLogRace)
    \/ \E p \in Procs : TrackRead(p)
    \/ \E p \in Procs : TrackLog(p)
    \/ \E p \in Procs : TrackDecide(p)
    \/ \E p \in Procs : Finish(p)

SpecRace == InitRegistered /\ [][NextRace]_vars

\* C29: however concurrent failed logins for one email interleave, at most 4 of
\* them are answered "not blocked", and an attempt that completes when 4
\* LOGIN_FAILED entries of other attempts are in the window is answered blocked.
\* (resp.notBlocked counts the 400 answers so far; resp.failsBefore is the
\* number of entries of other attempts at the moment of the answer.)
C29_FailedLoginCountersRaceFree ==
    /\ resp.notBlocked <= 4
    /\ (resp.op = "login" /\ resp.failsBefore >= 4) => resp.blocked

(* ------------------------------------------------------------------ *)
(* SpecAbort: register, login and refresh step by step, with a handler *)
(* that may be ended while it waits at an await                        *)
(* ------------------------------------------------------------------ *)
\* POST /auth/register after the checks: createUser, and the access token
RegisterUser(p) ==
    LET c == call[p]
        us1 == createUser(users, c.email, hashPassword(c.password))
        id == Len(us1)
    IN /\ pc[p] = "registering"
       /\ users' = us1
       /\ call' = [call EXCEPT ![p].user = id,
                               ![p].access = generateAccessToken(id, us1[id].email, us1[id].role,
                                                                 getClientIP(c.origin),
                                                                 getUserAgent(c.origin))]
       /\ pc' = [pc EXCEPT ![p] = "reg_token"]
       /\ UNCHANGED <<refreshTokens, parentOf, resetTokens, auditLog, now, rateHits,
                      issued, resp>>

\* POST /auth/register: createRefreshToken
RegisterToken(p) ==
    /\ pc[p] = "reg_token"
    /\ Len(refreshTokens) < MaxTokens
    /\ refreshTokens' = createRefreshToken(refreshTokens, call[p].user, call[p].origin)
    /\ parentOf' = Append(parentOf, 0)
    /\ call' = [call EXCEPT ![p].result = Len(refreshTokens) + 1]
    /\ pc' = [pc EXCEPT ![p] = "reg_track"]
    /\ UNCHANGED <<users, resetTokens, auditLog, now, rateHits, issued, resp>>

\* POST /auth/register: trackRegistration(true, ...) and the 201 answer
RegisterTrack(p, cap) ==
    LET c == call[p]
    IN /\ pc[p] = "reg_track"
       /\ Len(auditLog) + 1 <= cap
       /\ auditLog' = trackRegistration(auditLog, TRUE, users[c.user].email, c.origin, c.user, "")
       /\ issued' = issued \cup {c.access}
       /\ call' = [call EXCEPT ![p].status = 201]
       /\ pc' = [pc EXCEPT ![p] = "done"]
       /\ UNCHANGED <<users, refreshTokens, parentOf, resetTokens, now, rateHits, resp>>

\* POST /auth/login of a request that authenticates, up to trackSuccessfulLogin
LoginAuthenticated(p, e, pw, o, cap) ==
    LET r == LoginOutcome(e, pw, o)
    IN /\ pc[p] = "idle"
       /\ r.status = 200
       /\ Len(r.log) <= cap
       /\ rateHits' = RateHitsAfter("auth", o.sock)
       /\ auditLog' = r.log
       /\ call' = [call EXCEPT ![p] = [NoCall EXCEPT !.op = "login", !.email = e, !.password = pw,
                                                     !.origin = o, !.user = r.user,
                                                     !.access = r.access]]
       /\ pc' = [pc EXCEPT ![p] = "login_token"]
       /\ UNCHANGED <<users, refreshTokens, parentOf, resetTokens, now, issued, resp>>

\* POST /auth/login: createRefreshToken and the 200 answer
LoginToken(p) ==
    /\ pc[p] = "login_token"
    /\ Len(refreshTokens) < MaxTokens
    /\ refreshTokens' = createRefreshToken(refreshTokens, call[p].user, call[p].origin)
    /\ parentOf' = Append(parentOf, 0)
    /\ issued' = issued \cup {call[p].access}
    /\ call' = [call EXCEPT ![p].result = Len(refreshTokens) + 1, ![p].status = 200]
    /\ pc' = [pc EXCEPT ![p] = "done"]
    /\ UNCHANGED <<users, resetTokens, auditLog, now, rateHits, resp>>

\* the answer reaches the client; resp.returned collects the refresh tokens
\* clients were sent
Deliver(p) ==
    /\ pc[p] = "done"
    /\ resp' = [resp EXCEPT !.returned = IF call[p].result # 0 THEN @ \cup {call[p].result} ELSE @]
    /\ pc' = [pc EXCEPT ![p] = "idle"]
    /\ call' = [call EXCEPT ![p] = NoCall]
    /\ UNCHANGED <<users, refreshTokens, parentOf, resetTokens, auditLog, now,
                   rateHits, issued>>

\* a handler waiting at an await is ended (the awaited call rejects, or the
\* process stops): it runs no further and sends no answer of its own
Terminate(p) ==
    /\ pc[p] \notin {"idle", "done"}
    /\ pc' = [pc EXCEPT ![p] = "idle"]
    /\ call' = [call EXCEPT ![p] = NoCall]
    /\ UNCHANGED <<users, refreshTokens, parentOf, resetTokens, auditLog, now,
                   rateHits, issued, resp>>

NextAbort ==
    \/ /\ RegisterOutcome("a@x.io", "Str0ng!Pass9", OriginA, TRUE).status = 201
       /\ RegisterCheck(1, "a@x.io", "Str0ng!Pass9", OriginA, MaxRegistered, MaxLogAbort)
    \/ RegisterUser(1)
    \/ RegisterToken(1)
    \/ RegisterTrack(1, MaxLogAbort)
    \/ LoginAuthenticated(1, "a@x.io", "Str0ng!Pass9", OriginA, MaxLogAbort)
    \/ LoginToken(1)
    \/ \E t \in DOMAIN refreshTokens : RefreshStart(1, t, OriginA, MaxLogAbort)
    \/ RefreshUser(1)
    \/ RotateFind(1)
    \/ RotateRevoke(1)
    \/ RotateCreate(1)
    \/ Deliver(1)
    \/ Terminate(1)

SpecAbort == Init /\ [][NextAbort]_vars

\* C30: a login, registration or refresh handler ended at a suspension point
\* leaves no partial credential state: every stored refresh token was returned
\* to a caller (or its request is still running), and every revoked refresh
\* token has a successor (or its rotation is still running).
C30_NoPartialCredentialState ==
    /\ \A i \in DOMAIN refreshTokens :
          \/ i \in resp.returned
          \/ pc[1] # "idle" /\ call[1].result = i
    /\ \A i \in DOMAIN refreshTokens :
          refreshTokens[i].revoked =>
              \/ Rotated(i)
              \/ pc[1] = "rot_create" /\ call[1].token = i

(* ------------------------------------------------------------------ *)
(* SpecSoft: failed logins for one email, with pauses between them     *)
(* ------------------------------------------------------------------ *)
NextSoft ==
    \/ \E o \in {OriginA, OriginP} : Login("a@x.io", "Wr0ng!Guess1", o, MaxLogSoft)
    \/ \E d \in {10, SHORT_WINDOW, SHORT_WINDOW + 1} : Advance(d, MaxSoftTime)

SpecSoft == InitRegistered /\ [][NextSoft]_vars

\* the step is a failed login that reached trackFailedLogin
FailedLoginStep == /\ auditLog' # auditLog
                   /\ resp'.op = "login"
                   /\ resp'.status \in {400, 429}
                   /\ resp'.msg # "limiter"

\* times of the earlier failed logins for the request's email or from its IP,
\* and of the earlier blocked answers for the email
AttemptTimes(e, ip) ==
    {auditLog[i].timestamp : i \in {j \in DOMAIN auditLog :
        /\ auditLog[j].eventType = "LOGIN_FAILED"
        /\ auditLog[j].email = e \/ auditLog[j].ipAddress = ip}}

BlockedTimes(e) ==
    {auditLog[i].timestamp : i \in {j \in DOMAIN auditLog :
        auditLog[j].eventType = "LOGIN_BLOCKED" /\ auditLog[j].email = e}}

InitContext ==
    /\ now = 0
    /\ users = createUser(<<>>, "a@x.io", hashPassword("Str0ng!Pass9"))
    /\ refreshTokens = <<>>
    /\ parentOf = <<>>
    /\ resetTokens = <<>>
    /\ auditLog = <<>>
    /\ rateHits = [l \in Limiters |-> [k \in Socks |-> [count |-> 0, resetAt |-> 0]]]
    /\ \E ipAddress \in {"", "10.0.0.1"}, userAgent \in {"", "Firefox"} :
          issued = {generateAccessToken(1, "a@x.io", "customer", ipAddress, userAgent)}
    /\ pc = [p \in Procs |-> "idle"]
    /\ call = [p \in Procs |-> NoCall]
    /\ resp = NoResp

NextContext ==
    \/ \E t \in issued, o \in {OriginA, OriginB, OriginC, OriginP, OriginN} :
          Protected("me", t, o, MaxLogContext)
    \/ Advance(ACCESS_TOKEN_MINUTES, MaxContextTime)

SpecContext == InitContext /\ [][NextContext]_vars

NextCase ==
    \/ \E e \in {"a@x.io", "A@x.io"} : Login(e, "Wr0ng!Guess1", OriginA, MaxLogCase)
    \/ \E e \in {"a@x.io", "A@x.io"} : ForgotPassword(e, OriginA, TRUE, MaxLogCase)

SpecCase == InitRegistered /\ [][NextCase]_vars

\* C33: the email-scoped counts are case-insensitive: a failed login is blocked
\* exactly when the LOGIN_FAILED entries of the last 15 minutes for its email in
\* any letter case, its own included, number 5 or more (fewer than 10 come from
\* the IP here), so the 5th failed login typed in upper case is blocked; reset
\* requests are counted over 60 minutes in the same way.
C33_EmailCountsIgnoreCase ==
    LET SameEmail(d) == toLowerCase(d.email) = toLowerCase(resp.email)
        failed == Cardinality({i \in DOMAIN auditLog :
                      /\ auditLog[i].eventType = "LOGIN_FAILED"
                      /\ auditLog[i].timestamp >= resp.at - 15
                      /\ SameEmail(auditLog[i])})
        resets == Cardinality({i \in DOMAIN auditLog :
                      /\ auditLog[i].eventType = "PASSWORD_RESET_REQUESTED"
                      /\ auditLog[i].timestamp >= resp.at - 60
                      /\ SameEmail(auditLog[i])})
    IN /\ FailedLoginTracked => (resp.blocked <=> failed >= 5)
       /\ (resp.op = "forgot" /\ resp.msg # "limiter" /\ resets > 3) => resp.status = 429

(* ------------------------------------------------------------------ *)
(* SpecLockRace: login and refresh step by step, while the account's   *)
(* lock may be set between two of their steps                          *)
(* ------------------------------------------------------------------ *)
NextLockRace ==
    \/ LoginAuthenticated(1, "a@x.io", "Str0ng!Pass9", OriginA, MaxLogLockRace)
    \/ LoginToken(1)
    \/ \E t \in DOMAIN refreshTokens : RefreshStart(1, t, OriginA, MaxLogLockRace)
    \/ RefreshUser(1)
    \/ RotateFind(1)
    \/ RotateRevoke(1)
    \/ RotateCreate(1)
    \/ Finish(1)
    \/ \E u \in DOMAIN users : LockAccount(u)

SpecLockRace == InitRegistered /\ [][NextLockRace]_vars

\* C34: no access or refresh token is minted by login or refresh for an account
\* whose locked flag is true, however the requests interleave with the setting
\* of the lock; a refresh answered 403 leaves the presented token unrevoked and
\* creates no token.
C34_NoTokenWhileLocked ==
    [][/\ Len(refreshTokens') > Len(refreshTokens) =>
             ~users[refreshTokens'[Len(refreshTokens')].userId].locked
       /\ \A t \in issued' \ issued : ~users[t.userId].locked
       /\ (pc[1] # "done" /\ pc'[1] = "done" /\ call'[1].status = 403) =>
             /\ refreshTokens' = refreshTokens
             /\ issued' = issued
             /\ ~refreshTokens[call'[1].token].revoked]_vars

(* ------------------------------------------------------------------ *)
(* SpecRevoke: every operation that writes the revoked flag            *)
(* ------------------------------------------------------------------ *)
\* the two repository functions no route calls, applied directly
RevokeById(tokenId, userId) ==
    /\ refreshTokens' = revokeRefreshTokenByIdForUser(refreshTokens, tokenId, userId)
    /\ resp' = [NoResp EXCEPT !.at = now, !.op = "revokeById"]
    /\ UNCHANGED <<users, parentOf, resetTokens, auditLog, now, rateHits, issued, pc, call>>

RevokeAllExcept(userId, ipAddress, userAgent) ==
    /\ refreshTokens' = revokeAllUserRefreshTokensExcept(refreshTokens, userId, ipAddress, userAgent)
    /\ resp' = [NoResp EXCEPT !.at = now, !.op = "revokeAllExcept"]
    /\ UNCHANGED <<users, parentOf, resetTokens, auditLog, now, rateHits, issued, pc, call>>

NextRevoke ==
    \/ Login("a@x.io", "Str0ng!Pass9", OriginB, MaxLogRevoke)
    \/ \E t \in DOMAIN refreshTokens : Logout(t)
    \/ \E t \in issued : Protected("logoutAll", t, OriginA, MaxLogRevoke)
    \/ \E t \in DOMAIN refreshTokens : RotateCall(1, t, 1, OriginA)
    \/ RotateFind(1)
    \/ RotateRevoke(1)
    \/ RotateCreate(1)
    \/ Finish(1)
    \/ \E t \in DOMAIN refreshTokens : RevokeById(t, 1)
    \/ \E ua \in {"", "Firefox"} : RevokeAllExcept(1, "10.0.0.1", ua)
    \/ Advance(MINUTES_PER_DAY, MaxRevokeTime)

SpecRevoke == InitRegistered /\ [][NextRevoke]_vars

\* C35: revocation is permanent: a revoked refresh token stays revoked and
\* findValidRefreshToken gives null for it in every later state; a repeated
\* revocation changes nothing of it but the revocation timestamp.
C35_RevocationPermanent ==
    [][\A i \in DOMAIN refreshTokens :
          refreshTokens[i].revoked =>
              /\ i \in DOMAIN refreshTokens'
              /\ refreshTokens'[i].revoked
              /\ ~Valid(refreshTokens, i)'
              /\ [refreshTokens'[i] EXCEPT !.revokedAt = refreshTokens[i].revokedAt]
                    = refreshTokens[i]]_vars

\* a token revoked by rotation at minute 0 and revoked again by a logout a day
\* later carries the later timestamp
C35_Witness ==
    /\ resp.op = "logout"
    /\ \E i \in DOMAIN refreshTokens :
          /\ Rotated(i)
          /\ refreshTokens[i].revoked
          /\ refreshTokens[i].revokedAt = MINUTES_PER_DAY
          /\ refreshTokens[i].expiresAt = REFRESH_TOKEN_EXPIRES_MINUTES

(* ------------------------------------------------------------------ *)
(* SpecResetRace: POST /auth/reset-password handled concurrently       *)
(* ------------------------------------------------------------------ *)
\* the handler up to its first database call: the two password validations
ResetBegin(p, token, pw, o, svcUp, cap) ==
    LET c == [NoCall EXCEPT !.op = "reset", !.token = token, !.password = pw, !.origin = o]
        rejected == \/ ~validatePasswordStrength(pw).valid
                    \/ ~validatePasswordNotBreached(pw, svcUp).valid
    IN /\ pc[p] = "idle"
       /\ Len(auditLog) + Cardinality(InFlight) + 1 <= cap
       /\ pc' = [pc EXCEPT ![p] = IF rejected THEN "done" ELSE "reset_find"]
       /\ call' = [call EXCEPT ![p] = IF rejected THEN [c EXCEPT !.status = 400] ELSE c]
       /\ UNCHANGED <<users, refreshTokens, parentOf, resetTokens, auditLog, now,
                      rateHits, issued, resp>>

\* findPasswordResetToken and the expiry test on the document it returned
ResetFind(p) ==
    LET resetToken == findPasswordResetToken(resetTokens, call[p].token)
        userId == resetTokens[resetToken].userId
    IN /\ pc[p] = "reset_find"
       /\ IF resetToken = 0
          THEN /\ auditLog' = trackPasswordReset(auditLog, FALSE, 0, "", call[p].origin,
                                                 "Invalid or expired token")
               /\ call' = [call EXCEPT ![p].status = 400]
               /\ pc' = [pc EXCEPT ![p] = "done"]
          ELSE IF now > resetTokens[resetToken].expiresAt
          THEN /\ auditLog' = trackPasswordReset(auditLog, FALSE, userId, "", call[p].origin,
                                                 "Token expired")
               /\ call' = [call EXCEPT ![p].status = 400, ![p].user = userId]
               /\ pc' = [pc EXCEPT ![p] = "done"]
          ELSE /\ call' = [call EXCEPT ![p].result = resetToken, ![p].user = userId]
               /\ pc' = [pc EXCEPT ![p] = "reset_update"]
               /\ UNCHANGED auditLog
       /\ UNCHANGED <<users, refreshTokens, parentOf, resetTokens, now, rateHits, issued, resp>>

\* hashPassword + updatePassword; call.before keeps the hash that was replaced
ResetUpdate(p) ==
    /\ pc[p] = "reset_update"
    /\ users' = updatePassword(users, call[p].user, hashPassword(call[p].password))
    /\ call' = [call EXCEPT ![p].before = <<users[call[p].user].passwordHash>>]
    /\ pc' = [pc EXCEPT ![p] = "reset_mark"]
    /\ UNCHANGED <<refreshTokens, parentOf, resetTokens, auditLog, now, rateHits, issued, resp>>

\* markTokenAsUsed
ResetMark(p) ==
    /\ pc[p] = "reset_mark"
    /\ resetTokens' = markTokenAsUsed(resetTokens, call[p].result)
    /\ pc' = [pc EXCEPT ![p] = "reset_track"]
    /\ UNCHANGED <<users, refreshTokens, parentOf, auditLog, now, rateHits, issued, call, resp>>

\* trackPasswordReset(true, ...) and the 200 answer
ResetTrack(p) ==
    LET user == findUserById(users, call[p].user)
    IN /\ pc[p] = "reset_track"
       /\ auditLog' = trackPasswordReset(auditLog, TRUE, call[p].user,
                                         IF user # 0 THEN users[user].email ELSE "",
                                         call[p].origin, "")
       /\ call' = [call EXCEPT ![p].status = 200]
       /\ pc' = [pc EXCEPT ![p] = "done"]
       /\ UNCHANGED <<users, refreshTokens, parentOf, resetTokens, now, rateHits, issued, resp>>

\* the request of worker p replaced the account's password hash by another one
ChangedHash(p) ==
    /\ call[p].op = "reset"
    /\ call[p].before # <<>>
    /\ call[p].before[1] # hashPassword(call[p].password)

NextResetRace ==
    \/ NoRequestInFlight /\ ForgotPassword("a@x.io", OriginA, TRUE, MaxLogResetRace)
    \/ \E p \in Procs, t \in 0..Len(resetTokens), pw \in {"N3w!Passw0rd", "Wr0ng!Guess1", "abc"} :
          ResetBegin(p, t, pw, OriginA, TRUE, MaxLogResetRace)
    \/ \E p \in Procs : ResetFind(p)
    \/ \E p \in Procs : ResetUpdate(p)
    \/ \E p \in Procs : ResetMark(p)
    \/ \E p \in Procs : ResetTrack(p)
    \/ \E p \in Procs : Finish(p)

SpecResetRace == InitRegistered /\ [][NextResetRace]_vars

\* C36: of the reset-password requests in flight that present the same reset
\* token, at most one changes the account's password hash.
C36_ResetTokenSingleUseUnderRace ==
    \A p, q \in Procs :
        (p # q /\ ChangedHash(p) /\ call[q].op = "reset" /\ call[q].token = call[p].token)
            => ~ChangedHash(q)

(* ------------------------------------------------------------------ *)
(* SpecResetFail: password resets, most of them refused                *)
(* ------------------------------------------------------------------ *)
NextResetFail ==
    \/ ForgotPassword("a@x.io", OriginA, TRUE, MaxLogResetFail)
    \/ \E t \in 0..Len(resetTokens), pw \in {"N3w!Passw0rd", "abc", "P@ssw0rd"}, svcUp \in BOOLEAN :
          ResetPassword(t, pw, OriginA, svcUp, MaxLogResetFail)
    \/ Advance(RESET_TOKEN_MINUTES + 1, MaxResetFailTime)

SpecResetFail == InitRegistered /\ [][NextResetFail]_vars

\* C37: a POST /auth/reset-password answered 400 (weak or breached password,
\* unknown, used or expired token) leaves every account's password hash and
\* every reset token's used flag as they were, so a token that was usable
\* before the refused request is usable after it.
C37_RejectedResetChangesNothing ==
    [][(resp'.op = "reset" /\ resp'.status = 400 /\ now' = now) =>
          /\ users' = users
          /\ resetTokens' = resetTokens
          /\ findPasswordResetToken(resetTokens', resp'.reset)
                = findPasswordResetToken(resetTokens, resp'.reset)]_vars

\* a reset refused for a weak password although its token is unused and not
\* expired, the token still being usable
C37_Witness ==
    /\ resp.op = "reset"
    /\ resp.status = 400
    /\ resp.msg = "weak password"
    /\ resp.reset \in DOMAIN resetTokens
    /\ findPasswordResetToken(resetTokens, resp.reset) = resp.reset
    /\ now <= resetTokens[resp.reset].expiresAt
    /\ users[1].passwordHash = hashPassword("Str0ng!Pass9")

(* ------------------------------------------------------------------ *)
(* SpecPwChange: password changes next to refresh-token rotation       *)
(* ------------------------------------------------------------------ *)
NextPwChange ==
    \/ ForgotPassword("a@x.io", OriginA, TRUE, MaxLogPwChange)
    \/ \E t \in DOMAIN resetTokens : ResetPassword(t, "N3w!Passw0rd", OriginA, TRUE, MaxLogPwChange)
    \/ \E t \in issued, cur \in {"Str0ng!Pass9", "N3w!Passw0rd"} :
          ChangePassword(t, OriginA, cur, "Wr0ng!Guess1", TRUE, MaxLogPwChange)
    \/ \E t \in DOMAIN refreshTokens : RefreshStart(1, t, OriginA, MaxLogPwChange)
    \/ RefreshUser(1)
    \/ RotateFind(1)
    \/ RotateRevoke(1)
    \/ RotateCreate(1)
    \/ Finish(1)
    \/ Advance(1, MaxPwChangeTime)

SpecPwChange == InitRegistered /\ [][NextPwChange]_vars

\* C38: a password change by POST /auth/reset-password or POST
\* /profile/change-password leaves every refresh token as it was, so the
\* tokens findValidRefreshToken accepted before it are accepted after it.
C38_PasswordChangeKeepsRefreshTokens ==
    [][(/\ resp'.op \in {"reset", "change"}
        /\ resp'.status = 200
        /\ (resp' # resp \/ users' # users)) =>
          /\ refreshTokens' = refreshTokens
          /\ parentOf' = parentOf
          /\ \A i \in DOMAIN refreshTokens :
                Valid(refreshTokens, i) => Valid(refreshTokens', i)]_vars

\* the password was reset at minute 0 and the refresh token issued before the
\* reset was rotated at minute 1
C38_Witness ==
    /\ resp.op = "reset"
    /\ resp.status = 200
    /\ resp.at = 0
    /\ users[1].passwordHash = hashPassword("N3w!Passw0rd")
    /\ Len(refreshTokens) = 2
    /\ parentOf[2] = 1
    /\ refreshTokens[1].revokedAt = 1
    /\ refreshTokens[2].expiresAt = 1 + REFRESH_TOKEN_EXPIRES_MINUTES
    /\ Valid(refreshTokens, 2)

(* ------------------------------------------------------------------ *)
(* SpecSuccess: failed and successful logins for one email             *)
(* ------------------------------------------------------------------ *)
NextSuccess ==
    \/ \E pw \in {"Str0ng!Pass9", "Wr0ng!Guess1"}, o \in {OriginA, OriginP} :
          Login("a@x.io", pw, o, MaxLogSuccess)
    \/ Advance(10, MaxSuccessTime)

SpecSuccess == InitRegistered /\ [][NextSuccess]_vars

\* C39: a successful login appends one LOGIN_SUCCESS entry and leaves the
\* entries before it, and with them the failed-login counts, as they were; a
\* failed login that finds 4 or more LOGIN_FAILED entries for its email in the
\* last 15 minutes is answered blocked, successful logins in between or not.
C39_SuccessKeepsFailedCounts ==
    [][/\ (resp'.op = "login" /\ resp'.status = 200 /\ auditLog' # auditLog) =>
            /\ Len(auditLog') = Len(auditLog) + 1
            /\ SubSeq(auditLog', 1, Len(auditLog)) = auditLog
            /\ auditLog'[Len(auditLog')].eventType = "LOGIN_SUCCESS"
            /\ getFailedLoginAttempts(auditLog', resp'.email, SHORT_WINDOW)
                  = getFailedLoginAttempts(auditLog, resp'.email, SHORT_WINDOW)
            /\ getFailedLoginAttemptsByIP(auditLog', getClientIP(resp'.origin), SHORT_WINDOW)
                  = getFailedLoginAttemptsByIP(auditLog, getClientIP(resp'.origin), SHORT_WINDOW)
       /\ (FailedLoginStep /\ getFailedLoginAttempts(auditLog, resp'.email, SHORT_WINDOW) >= 4) =>
            resp'.blocked]_vars

\* four failed logins, a successful one, and a failed one answered blocked,
\* all within 15 minutes
C39_Witness ==
    /\ resp.op = "login" /\ resp.blocked
    /\ resp.at <= SHORT_WINDOW
    /\ resp.failsBefore = 4
    /\ \E i \in DOMAIN auditLog :
          /\ auditLog[i].eventType = "LOGIN_SUCCESS"
          /\ auditLog[i].email = "a@x.io"
          /\ Cardinality({j \in 1..(i - 1) : auditLog[j].eventType = "LOGIN_FAILED"
                                              /\ auditLog[j].email = "a@x.io"}) = 4
          /\ \E k \in (i + 1)..Len(auditLog) : /\ auditLog[k].eventType = "LOGIN_FAILED"
                                                /\ auditLog[k].timestamp = resp.at

====
